---- MODULE Spec2Model ----
(***************************************************************************)
(* Model of the integration-test harness of bb-deployments:                *)
(*   - lib/socket_server.py    SocketServer (coordination server)          *)
(*   - lib/test_client.py      TestClient, and the test binaries using it  *)
(*   - lib/service_manager.py  ServiceManager (process supervisor)         *)
(*   - lib/test_runner.py      test_environment_with_socket                *)
(*                                                                         *)
(* Text is a sequence of one-character strings.  The tokens of the wire    *)
(* vocabulary are abbreviated to their initial: STARTED is <<"S">>,        *)
(* CONTINUE is <<"C">>, DONE is <<"D">>.  The clock `now` counts seconds   *)
(* and advances in steps of TickSeconds.                                   *)
(***************************************************************************)
EXTENDS Integers, Sequences, FiniteSets, TLC

VARIABLES
    \* ---- SocketServer (lib/socket_server.py) ----
    running,      \* self._running
    sock,         \* self._socket: "none", "unbound", "listening" or "closed"
    messages,     \* self._messages: the queue of Message objects
    reader,       \* per connection: position of its _handle_connection thread
    rbuf,         \* per connection: the local `buffer` of _handle_connection
    wpc,          \* per calling thread: position in wait_for_message_with_conn
    wdeadline,    \* per calling thread: the local `deadline`
    wnotified,    \* per calling thread: notified while blocked in condition.wait
    wresult,      \* per calling thread: the value its last call returned
    \* ---- TCP connections ----
    c2s,          \* per connection: bytes sent by the client, not yet received
    s2c,          \* per connection: bytes sent by the server, not yet received
    \* ---- test binaries (tests/*/test_binary.py over lib/test_client.py) ----
    cpc,          \* per client: position in main()
    cbuf,         \* per client: the local `buffer` of TestClient.receive
    cdeadline,    \* per client: when the pending recv times out
    cresponse,    \* per client: the value TestClient.receive returned
    \* ---- history (not program state) ----
    enqueued,     \* every frame appended to the queue, in append order
    returned,     \* every Message popped by a wait call, in pop order
    held,         \* Message objects the harness got from ..._with_conn
    nreplies,     \* number of calls of SocketServer.reply
    lastReply,    \* the most recent call of SocketServer.reply: arguments, result
    written,      \* per connection: the responses reply wrote to it
    \* ---- ServiceManager (lib/service_manager.py) ----
    callBad,      \* the descriptor _start_service failed on in the current /
                  \* most recent start(), 0 when none failed
    processes,    \* self._processes: sequence of (service, proc)
    osState,      \* per process: unborn, running, exited with a status (not
                  \* yet waited on), or gone (waited on and dropped)
    returncode,   \* per process: Popen.returncode (None until polled/waited)
    smPc,         \* position of the supervisor thread inside start()/stop()
    smIdx,        \* loop index of the running for-loop
    smDeadline,   \* local `deadline` of stop(), or the end of the start-up sleep
    smRet,        \* where the running stop() returns to
    smResult,     \* what the last start() returned
    \* ---- history of the supervisor (not program state) ----
    calls,        \* the operations called on the ServiceManager, in order
    callSpawned,  \* processes spawned by the current / most recent start()
    sigterms,     \* per process: number of SIGTERMs sent to it
    kills,        \* per managed process: number of kill() calls on it
    termAt,       \* per managed process: time of the SIGTERM sent to it
    \* ---- test_environment_with_socket (lib/test_runner.py) ----
    envPc,        \* position of the context manager and its caller
    envExc,       \* the exception propagating, if any
    envBody,      \* how the body of the caller's with statement ended
    \* ---- the harness thread (lib/message_coordination.py) ----
    colPc,        \* position of the harness thread in the running helper
    colKind,      \* the helper called
    colCount,     \* argument `count`
    colTimeout,   \* argument `timeout`
    colPrefix,    \* argument `expected_prefix` / "STARTED:" + test_id
    colStart,     \* local `start_time`
    collected,    \* CollectedMessages.messages
    testIds,      \* CollectedMessages.test_ids
    colResult,    \* what the helper returned
    colTaken,     \* history: frames the running helper has dequeued
    colBase,      \* history: number of frames enqueued when the helper was called
    raIdx,        \* reply_all: index of the member the loop is at
    raResponse,   \* reply_all: argument `response`
    raResult,     \* what reply_all returned
    raTried,      \* history: members reply was called for
    \* ---- history of the connections ----
    sent,         \* per connection: every byte the client has sent
    \* ---- ServiceManager, further ----
    isRunResult,  \* what the last is_running() returned
    mkdirs,       \* history: calls of _create_directories
    \* ---- the build and the teardown ----
    racPc,        \* position of the harness in run_and_collect_started
    racResult,    \* what run_and_collect_started returned
    bazelTerms,   \* history: calls of bazel_proc.terminate()
    bazelDown,    \* history: shutdown_bazel was called
    \* ---- the threads of SocketServer, step by step ----
    acceptPc,     \* position of the accept thread in _accept_loop
    stopPc,       \* position of the caller of SocketServer.stop
    \* ---- the runner of a two-test scenario ----
    scPc,         \* position of the runner in main
    scKind,       \* "sequential" or "parallel"
    scHeld,       \* the STARTED messages the runner holds, in order
    scReplied,    \* how many of them it has answered
    scDones,      \* DONE frames it has received
    scResult,     \* "pass" (return 0) or "fail" (return 1)
    \* ---- BuildbarnLauncher (bare/main.py) ----
    platform,          \* sys.platform: "posix" or "win32"
    bbPc,              \* position of the launcher in run / _wait_for_processes
    bbIdx,             \* index of the loop over the processes it is in
    bbProcesses,       \* self.processes: the configured processes started
    shutdown_requested, \* self.shutdown_requested
    kill_requested,    \* self.kill_requested
    bbState,           \* per process: "none", "running" or "exited"
    bbExit,            \* per process: the exit status it ended with
    bbReturncode,      \* per process: Popen.returncode (None until reaped)
    bbDeadline,        \* the local `deadline` of _wait_for_processes
    bbResult,          \* what run() returned (-1: not yet)
    bbStartFailed,     \* history: _start_process returned None
    bbTermSent,        \* history, per process: the launcher sent it SIGTERM
    bbKilled,          \* history, per process: the launcher called kill()
    bbSignals,         \* history: SIGTERM/SIGINT delivered to the launcher
    \* ---- time ----
    now           \* time.time(), in seconds

serverVars == <<running, sock, messages, reader, rbuf, wpc, wdeadline,
                wnotified, wresult, c2s, s2c, cpc, cbuf, cdeadline, cresponse,
                enqueued, returned, held, nreplies, lastReply, written>>

smVars == <<callBad, processes, osState, returncode, smPc, smIdx, smDeadline,
            smRet, smResult, calls, callSpawned, sigterms, kills, termAt>>

envVars == <<envPc, envExc, envBody>>

\* the SocketServer's state besides _running and _socket
queueVars == <<messages, reader, rbuf, wpc, wdeadline, wnotified, wresult,
               c2s, s2c, cpc, cbuf, cdeadline, cresponse, enqueued, returned,
               held, nreplies, lastReply, written>>

colVars == <<colPc, colKind, colCount, colTimeout, colPrefix, colStart,
             collected, testIds, colResult, colTaken, colBase,
             raIdx, raResponse, raResult, raTried>>

frameVars == <<sent>>

smOpVars == <<isRunResult, mkdirs>>

buildVars == <<racPc, racResult, bazelTerms, bazelDown>>

threadVars == <<acceptPc, stopPc>>

scenVars == <<scPc, scKind, scHeld, scReplied, scDones, scResult>>

launchVars == <<platform, bbPc, bbIdx, bbProcesses, shutdown_requested,
                kill_requested, bbState, bbExit, bbReturncode, bbDeadline,
                bbResult, bbStartFailed, bbTermSent, bbKilled, bbSignals>>

vars == <<serverVars, smVars, envVars, colVars, frameVars, buildVars, threadVars, scenVars, launchVars, smOpVars, now>>

----------------------------------------------------------------------------
(* Bounds *)

NumConns == 2          \* connections (one test binary each)
NumWaiters == 2        \* threads calling the wait operations
MaxReplies == 2        \* calls of SocketServer.reply
MaxTime == 30          \* the clock stops advancing here
TickSeconds == 30      \* granularity of the clock

NumBuildbarn == 2      \* entries of BUILDBARN_PROCESSES
MaxSignals == 2        \* SIGTERM/SIGINT delivered to the launcher

NumServices == 2       \* descriptors in ServiceManager.services
MaxCalls == 3          \* operations called on one ServiceManager

Conns == 1..NumConns
Waiters == 1..NumWaiters
Services == 1..NumServices
\* every start() spawns at most one process per descriptor
Procs == 1..(MaxCalls * NumServices)

----------------------------------------------------------------------------
(* Text *)

NL == "\n"
Whitespace == {" ", "\t", "\r", NL}

STARTED == <<"S">>
CONTINUE == <<"C">>
DONE == <<"D">>
OtherText == <<"X">>

\* The timeouts the callers pass to the wait operations (seconds).
WaitTimeouts == {-1, 0, 5}

\* tests/*/test_binary.py: client.receive(30)
RECEIVE_TIMEOUT == 30

HasNewline(buf) == \E i \in 1..Len(buf) : buf[i] = NL

FirstNewline(buf) == CHOOSE i \in 1..Len(buf) :
                        buf[i] = NL /\ \A j \in 1..(i-1) : buf[j] # NL

\* buffer.split(b"\n", 1): the line before the first newline, and the rest
SplitLine(buf) ==
    LET i == FirstNewline(buf)
    IN [line |-> SubSeq(buf, 1, i-1), rest |-> SubSeq(buf, i+1, Len(buf))]

RECURSIVE LStrip(_)
LStrip(s) == IF s # <<>> /\ Head(s) \in Whitespace THEN LStrip(Tail(s)) ELSE s

RECURSIVE RStrip(_)
RStrip(s) == IF s # <<>> /\ s[Len(s)] \in Whitespace
             THEN RStrip(SubSeq(s, 1, Len(s)-1)) ELSE s

StripLeft(s) == LStrip(s)
\* str.strip()
Strip(s) == RStrip(LStrip(s))

----------------------------------------------------------------------------
(* SocketServer *)

\* Message(content, conn): uid stands for the identity of the Python object
Message(content, conn, uid) == [content |-> content, connection |-> conn, uid |-> uid]

\* Optional results
None == [some |-> FALSE]
Some(x) == [some |-> TRUE, val |-> x]
NoCall == [some |-> FALSE, nocall |-> TRUE]

PopLast(q) == [msg |-> q[Len(q)], rest |-> SubSeq(q, 1, Len(q)-1)]
PopKeep(q) == [msg |-> Head(q), rest |-> q]
\* self._messages.pop(0)
Pop(q) == [msg |-> Head(q), rest |-> Tail(q)]

WaitStepTimeoutFirst(q, deadline, t) ==
    IF deadline - t <= 0 THEN "none"
    ELSE IF q # <<>> THEN "pop" ELSE "wait"
\* One pass of the loop of wait_for_message_with_conn, under the lock:
\* pop when the queue is not empty, else give up when no time remains,
\* else block in condition.wait.
WaitStep(q, deadline, t) ==
    IF q # <<>> THEN "pop"
    ELSE IF deadline - t <= 0 THEN "none" ELSE "wait"

ReplyTargetFirst(msg) == 1
\* SocketServer.reply: the socket the response is written to
ReplyTarget(msg) == msg.connection


\* the client's socket is connected and not closed
ClientOpen(k) == cpc[k] \in {"waiting", "continued"}
\* the client connected at some time
ClientConnected(k) == cpc[k] \in {"waiting", "continued", "exit0", "exit1"}

ServerInit ==
    /\ running = FALSE
    /\ sock = "none"
    /\ messages = <<>>
    /\ reader = [k \in Conns |-> "none"]
    /\ rbuf = [k \in Conns |-> <<>>]
    /\ wpc = [w \in Waiters |-> "idle"]
    /\ wdeadline = [w \in Waiters |-> 0]
    /\ wnotified = [w \in Waiters |-> FALSE]
    /\ wresult = [w \in Waiters |-> NoCall]
    /\ c2s = [k \in Conns |-> <<>>]
    /\ s2c = [k \in Conns |-> <<>>]
    /\ cpc = [k \in Conns |-> "init"]
    /\ cbuf = [k \in Conns |-> <<>>]
    /\ cdeadline = [k \in Conns |-> 0]
    /\ cresponse = [k \in Conns |-> NoCall]
    /\ enqueued = <<>>
    /\ returned = <<>>
    /\ held = {}
    /\ nreplies = 0
    /\ lastReply = NoCall
    /\ written = [k \in Conns |-> {}]

\* SocketServer.start
ServerStart ==
    /\ sock = "none"
    /\ sock' = "listening"
    /\ running' = TRUE
    /\ UNCHANGED <<messages, reader, rbuf, wpc, wdeadline, wnotified,
                   wresult, c2s, s2c, cpc, cbuf, cdeadline, cresponse,
                   enqueued, returned, held, nreplies, lastReply, written, now,
                   smVars, envVars,
                   colVars, frameVars, buildVars, threadVars, scenVars, launchVars, smOpVars>>

\* _accept_loop: one accepted connection, its handler thread started
Accept(k) ==
    /\ running
    /\ sock = "listening"
    /\ ClientConnected(k)
    /\ reader[k] = "none"
    /\ reader' = [reader EXCEPT ![k] = "recv"]
    /\ UNCHANGED <<running, sock, messages, rbuf, wpc, wdeadline,
                   wnotified, wresult, c2s, s2c, cpc, cbuf, cdeadline,
                   cresponse, enqueued, returned, held, nreplies, lastReply, written, now,
                   smVars, envVars,
                   colVars, frameVars, buildVars, threadVars, scenVars, launchVars, smOpVars>>

ReaderAfterForever(buf) ==
    IF HasNewline(buf) THEN "parse" ELSE "recv"
\* where the handler goes once its buffer holds no complete line:
\* back to `while self._running`
ReaderAfter(buf) ==
    IF HasNewline(buf) THEN "parse"
    ELSE IF running THEN "recv" ELSE "done"

\* _handle_connection: conn.recv(4096) returns some of the pending bytes
ReaderRecvN(k, n) ==
    /\ reader[k] = "recv"
    /\ n \in 1..Len(c2s[k])
    /\ LET buf == rbuf[k] \o SubSeq(c2s[k], 1, n)
       IN /\ rbuf' = [rbuf EXCEPT ![k] = buf]
          /\ c2s' = [c2s EXCEPT ![k] = SubSeq(c2s[k], n+1, Len(c2s[k]))]
          /\ reader' = [reader EXCEPT ![k] = ReaderAfter(buf)]
    /\ UNCHANGED <<running, sock, messages, wpc, wdeadline, wnotified,
                   wresult, s2c, cpc, cbuf, cdeadline, cresponse,
                   enqueued, returned, held, nreplies, lastReply, written, now,
                   smVars, envVars,
                   colVars, frameVars, buildVars, threadVars, scenVars, launchVars, smOpVars>>

\* recv returns any non-empty prefix of the pending bytes
ReaderRecv(k) == \E n \in 1..Len(c2s[k]) : ReaderRecvN(k, n)

\* recv returns all the pending bytes
ReaderRecvAll(k) == ReaderRecvN(k, Len(c2s[k]))

FlushPartial(buf) == IF Strip(buf) = <<>> THEN <<>> ELSE <<Strip(buf)>>
\* the frames made of the handler's buffer when its loop ends: the buffer
\* is a local of _handle_connection and is dropped with it
DropPartial(buf) == <<>>

\* _handle_connection: recv returns b"" (or raises OSError) after the client
\* closed its socket: break
ReaderEOF(k) ==
    /\ reader[k] = "recv"
    /\ c2s[k] = <<>>
    /\ cpc[k] \in {"exit0", "exit1"}
    /\ reader' = [reader EXCEPT ![k] = "done"]
    /\ LET frames == DropPartial(rbuf[k])
           uid == Len(enqueued) + 1
       IN IF frames = <<>>
          THEN UNCHANGED <<messages, enqueued>>
          ELSE /\ messages' = Append(messages, Message(frames[1], k, uid))
               /\ enqueued' = Append(enqueued,
                                [content |-> frames[1], from |-> k, uid |-> uid])
    /\ UNCHANGED <<running, sock, rbuf, wpc, wdeadline,
                   wnotified, wresult, c2s, s2c, cpc, cbuf, cdeadline,
                   cresponse, returned, held, nreplies, lastReply, written, now,
                   smVars, envVars,
                   colVars, frameVars, buildVars, threadVars, scenVars, launchVars, smOpVars>>

EnqueueAtHead(q, m) == <<m>> \o q
\* self._messages.append(Message(content, conn))
Enqueue(q, m) == Append(q, m)

NotifyNone(notified, pc) == notified
\* self._condition.notify_all(): every caller blocked in condition.wait
\* has a wake-up pending
NotifyAll(notified, pc) == notified \/ pc = "waiting"

\* _handle_connection: one pass of `while b"\n" in buffer`; a non-empty
\* line is appended under the lock and every blocked waiter is notified
ReaderParseLine(k) ==
    /\ reader[k] = "parse"
    /\ LET sp == SplitLine(rbuf[k])
           content == Strip(sp.line)
           uid == Len(enqueued) + 1
       IN /\ rbuf' = [rbuf EXCEPT ![k] = sp.rest]
          /\ reader' = [reader EXCEPT ![k] = ReaderAfter(sp.rest)]
          /\ IF content # <<>>
             THEN /\ messages' = Enqueue(messages, Message(content, k, uid))
                  /\ enqueued' = Append(enqueued,
                                   [content |-> content, from |-> k, uid |-> uid])
                  /\ wnotified' = [w \in Waiters |->
                                     NotifyAll(wnotified[w], wpc[w])]
             ELSE UNCHANGED <<messages, enqueued, wnotified>>
    /\ UNCHANGED <<running, sock, wpc, wdeadline, wresult, c2s, s2c,
                   cpc, cbuf, cdeadline, cresponse, returned, held, nreplies, lastReply,
                   written, now,
                   smVars, envVars,
                   colVars, frameVars, buildVars, threadVars, scenVars, launchVars, smOpVars>>

\* everything outside the SocketServer and its clients
restVars == <<smVars, envVars, colVars, frameVars, buildVars, scenVars, launchVars, smOpVars>>

\* SocketServer.start, the accept thread step by step: the socket listens,
\* _running is set and the thread enters _accept_loop
StartAcceptThread ==
    /\ sock = "none"
    /\ sock' = "listening"
    /\ running' = TRUE
    /\ acceptPc' = "check"
    /\ UNCHANGED <<stopPc, queueVars, restVars, now>>

\* _accept_loop: `while self._running`
AcceptLoopCheck ==
    /\ acceptPc = "check"
    /\ acceptPc' = IF running THEN "accept" ELSE "done"
    /\ UNCHANGED <<stopPc, serverVars, restVars, now>>

\* _accept_loop: accept() returns a connection and its handler thread is
\* started; the handler begins with `while self._running`
AcceptConn(k) ==
    /\ acceptPc = "accept"
    /\ sock = "listening"
    /\ ClientConnected(k)
    /\ reader[k] = "none"
    /\ reader' = [reader EXCEPT ![k] = ReaderAfter(<<>>)]
    /\ acceptPc' = "check"
    /\ UNCHANGED <<stopPc, running, sock, messages, rbuf, wpc, wdeadline,
                   wnotified, wresult, c2s, s2c, cpc, cbuf, cdeadline,
                   cresponse, enqueued, returned, held, nreplies, lastReply,
                   written, restVars, now>>

\* _accept_loop: accept() raises socket.timeout with no connection
\* pending: continue
AcceptTimeout ==
    /\ acceptPc = "accept"
    /\ \A k \in Conns : ~(ClientConnected(k) /\ reader[k] = "none")
    /\ acceptPc' = "check"
    /\ UNCHANGED <<stopPc, serverVars, restVars, now>>

\* _accept_loop: accept() raises OSError (the listening socket was closed
\* or has failed): break
AcceptOSError ==
    /\ acceptPc = "accept"
    /\ acceptPc' = "done"
    /\ UNCHANGED <<stopPc, serverVars, restVars, now>>

ReaderEndsAll(k, j) == TRUE
\* the handler threads that end when the recv of connection k raises
ReaderEnds(k, j) == j = k

\* _handle_connection: conn.recv raises OSError (connection reset): break
ReaderError(k) ==
    /\ reader[k] = "recv"
    /\ reader' = [j \in Conns |->
                    IF ReaderEnds(k, j) /\ reader[j] # "none"
                    THEN "done" ELSE reader[j]]
    /\ UNCHANGED <<threadVars, running, sock, messages, rbuf, wpc, wdeadline,
                   wnotified, wresult, c2s, s2c, cpc, cbuf, cdeadline,
                   cresponse, enqueued, returned, held, nreplies, lastReply,
                   written, restVars, now>>

\* _handle_connection: conn.recv raises socket.timeout after 1.0 s without
\* data: continue, to `while self._running`
ReaderTimeout(k) ==
    /\ reader[k] = "recv"
    /\ c2s[k] = <<>>
    /\ reader' = [reader EXCEPT ![k] = ReaderAfter(<<>>)]
    /\ UNCHANGED <<threadVars, running, sock, messages, rbuf, wpc, wdeadline,
                   wnotified, wresult, c2s, s2c, cpc, cbuf, cdeadline,
                   cresponse, enqueued, returned, held, nreplies, lastReply,
                   written, restVars, now>>

\* SocketServer.stop: self._running = False
StopClearFlag ==
    /\ stopPc = "none"
    /\ sock = "listening"
    /\ running' = FALSE
    /\ stopPc' = "close"
    /\ UNCHANGED <<acceptPc, sock, queueVars, restVars, now>>

\* SocketServer.stop: self._socket.close()
StopCloseSocket ==
    /\ stopPc = "close"
    /\ sock' = "closed"
    /\ stopPc' = "join"
    /\ UNCHANGED <<acceptPc, running, queueVars, restVars, now>>

\* SocketServer.stop: self._accept_thread.join(timeout=2.0) returns, the
\* thread having ended or the 2.0 s being over; stop() returns
StopJoin(timedOut) ==
    /\ stopPc = "join"
    /\ acceptPc = "done" \/ timedOut
    /\ stopPc' = "returned"
    /\ UNCHANGED <<acceptPc, serverVars, restVars, now>>

\* wait_for_message(timeout) / wait_for_message_with_conn(timeout) is called:
\* deadline = time.time() + timeout.  The callers hold a started server
\* (test_runner.py: `with SocketServer(socket_port) as server`).
EnterWait(w, timeout) ==
    /\ wpc' = [wpc EXCEPT ![w] = "called"]
    /\ wdeadline' = [wdeadline EXCEPT ![w] = now + timeout]

WaitCall(w, timeout) ==
    /\ sock # "none"
    /\ wpc[w] = "idle"
    /\ EnterWait(w, timeout)
    /\ UNCHANGED <<running, sock, messages, reader, rbuf, wnotified, wresult,
                   c2s, s2c, cpc, cbuf, cdeadline, cresponse,
                   enqueued, returned, held, nreplies, lastReply, written, now,
                   smVars, envVars,
                   colVars, frameVars, buildVars, threadVars, scenVars, launchVars, smOpVars>>

\* the caller may run the loop: it has just taken the lock, or
\* condition.wait returned (notified, or `remaining` elapsed)
WaitRunnable(w) ==
    \/ wpc[w] = "called"
    \/ /\ wpc[w] = "waiting"
       /\ wnotified[w] \/ now >= wdeadline[w]

\* wait_for_message_with_conn: one pass of the loop, holding the lock
WaitCheck(w) ==
    /\ WaitRunnable(w)
    /\ LET step == WaitStep(messages, wdeadline[w], now)
       IN \/ /\ step = "pop"
             /\ LET p == Pop(messages)
                IN /\ messages' = p.rest
                   /\ returned' = Append(returned, p.msg)
                   /\ wresult' = [wresult EXCEPT ![w] = Some(p.msg)]
             /\ wpc' = [wpc EXCEPT ![w] = "returned"]
          \/ /\ step = "none"
             /\ wresult' = [wresult EXCEPT ![w] = None]
             /\ wpc' = [wpc EXCEPT ![w] = "returned"]
             /\ UNCHANGED <<messages, returned>>
          \/ /\ step = "wait"
             /\ wpc' = [wpc EXCEPT ![w] = "waiting"]
             /\ UNCHANGED <<messages, returned, wresult>>
    /\ wnotified' = [wnotified EXCEPT ![w] = FALSE]
    /\ UNCHANGED <<running, sock, reader, rbuf, wdeadline, c2s, s2c,
                   cpc, cbuf, cdeadline, cresponse, enqueued, held,
                   nreplies, lastReply, written, now,
                   smVars, envVars,
                   colVars, frameVars, buildVars, threadVars, scenVars, launchVars, smOpVars>>

\* The call returns to its caller.  wait_for_message_with_conn hands over
\* the Message (the caller can reply to it later); wait_for_message hands
\* over `msg.content if msg else None` and the Message is dropped.  The
\* locals of the call are gone.
LeaveWait(w, withConn) ==
    /\ wpc' = [wpc EXCEPT ![w] = "idle"]
    /\ held' = IF withConn /\ wresult[w].some
               THEN held \cup {wresult[w].val} ELSE held
    /\ wresult' = [wresult EXCEPT ![w] = NoCall]
    /\ wdeadline' = [wdeadline EXCEPT ![w] = 0]

WaitReturn(w, withConn) ==
    /\ wpc[w] = "returned"
    /\ LeaveWait(w, withConn)
    /\ UNCHANGED <<running, sock, messages, reader, rbuf, wnotified,
                   c2s, s2c, cpc, cbuf, cdeadline, cresponse,
                   enqueued, returned, nreplies, lastReply, written, now,
                   smVars, envVars,
                   colVars, frameVars, buildVars, threadVars, scenVars, launchVars, smOpVars>>

\* what sendall can raise on a connected socket whose peer has closed
SendallErrors == {"BrokenPipeError", "ConnectionResetError"}
\* the subclasses of OSError among them
OSErrors == {"BrokenPipeError", "ConnectionResetError",
             "ConnectionAbortedError", "TimeoutError"}

\* msg.connection.sendall(line) on the connection of client k: the kernel
\* takes the whole line, or (only once the peer has closed) the call raises
Sendall(k) == IF ClientOpen(k) THEN {"sent"} ELSE {"sent"} \cup SendallErrors

CaughtBrokenPipeOnly(exc) == exc = "BrokenPipeError"
\* reply: `except OSError`
Caught(exc) == exc \in OSErrors

\* reply: `return True` after sendall, `return False` in the handler; an
\* exception the handler does not name leaves reply
ReplyResult(outcome) ==
    IF outcome = "sent" THEN "True"
    ELSE IF Caught(outcome) THEN "False" ELSE "raised"

SendLineOnce(stream, response) ==
    IF \E i \in 1..Len(stream) :
          i + Len(response) <= Len(stream)
          /\ SubSeq(stream, i, i + Len(response)) = response \o <<NL>>
    THEN stream
    ELSE stream \o response \o <<NL>>
\* reply: (response + "\n").encode("utf-8") handed to sendall
SendLine(stream, response) == stream \o response \o <<NL>>

\* SocketServer.reply(msg, response): sendall(response + "\n") on
\* msg.connection; False when the send raises OSError (the peer has closed)
SendReply(msg, response) ==
    /\ nreplies < MaxReplies
    /\ nreplies' = nreplies + 1
    /\ LET k == ReplyTarget(msg)
       IN \E outcome \in Sendall(k) :
             /\ lastReply' = [msg |-> msg, response |-> response,
                              ok |-> ReplyResult(outcome) = "True",
                              outcome |-> outcome,
                              result |-> ReplyResult(outcome)]
             /\ IF ClientOpen(k)
                THEN /\ s2c' = [s2c EXCEPT ![k] = SendLine(s2c[k], response)]
                     /\ written' = [written EXCEPT
                                       ![k] = written[k] \cup {response}]
                ELSE UNCHANGED <<s2c, written>>

\* reply called by the scenario on a message it holds
Reply(msg, response) ==
    /\ SendReply(msg, response)
    /\ UNCHANGED <<running, sock, messages, reader, rbuf, wpc,
                   wdeadline, wnotified, wresult, c2s, cpc, cbuf, cdeadline,
                   cresponse, enqueued, returned, held, now,
                   smVars, envVars,
                   colVars, frameVars, buildVars, threadVars, scenVars, launchVars, smOpVars>>

----------------------------------------------------------------------------
(* Test binaries *)

ResponseAny(response) == response.some
\* test_binary.py main: `if response != "CONTINUE": return 1`
ResponseAccepted(response) == response = Some(CONTINUE)

\* main: client.send(text) connects, then sends the line;
\* `return 1` when the connection is refused
ClientSendLine(k, text) ==
    /\ cpc[k] = "init"
    /\ IF sock = "listening"
       THEN /\ c2s' = [c2s EXCEPT ![k] = text \o <<NL>>]
            /\ sent' = [sent EXCEPT ![k] = text \o <<NL>>]
            /\ cpc' = [cpc EXCEPT ![k] = "waiting"]
            /\ cdeadline' = [cdeadline EXCEPT ![k] = now + RECEIVE_TIMEOUT]
       ELSE /\ cpc' = [cpc EXCEPT ![k] = "nosend"]
            /\ UNCHANGED <<c2s, sent, cdeadline>>
    /\ UNCHANGED <<running, sock, messages, reader, rbuf, wpc,
                   wdeadline, wnotified, wresult, s2c, cbuf, cresponse,
                   enqueued, returned, held, nreplies, lastReply, written, now,
                   smVars, envVars,
                   colVars, smOpVars, buildVars, threadVars, scenVars, launchVars>>

\* TestClient.send: sendall raises OSError after n bytes of the line have
\* gone out (n short of the newline); send returns False and the binary
\* exits, which closes its socket
ClientSendCut(k, text, n) ==
    /\ cpc[k] = "init"
    /\ sock = "listening"
    /\ n \in 1..Len(text)
    /\ c2s' = [c2s EXCEPT ![k] = SubSeq(text, 1, n)]
    /\ sent' = [sent EXCEPT ![k] = SubSeq(text, 1, n)]
    /\ cpc' = [cpc EXCEPT ![k] = "exit1"]
    /\ UNCHANGED <<running, sock, messages, reader, rbuf, wpc,
                   wdeadline, wnotified, wresult, s2c, cbuf, cdeadline,
                   cresponse, enqueued, returned, held, nreplies, lastReply,
                   written, now, threadVars, smVars, envVars, colVars,
                   smOpVars, buildVars, scenVars, launchVars>>

\* test_binary.py main: client.send("STARTED")
ClientSendStarted(k) == ClientSendLine(k, STARTED)

\* TestClient.receive: one recv of the loop `while b"\n" not in buffer`;
\* with a complete line in the buffer receive returns it stripped and main
\* compares it with CONTINUE
ClientRecv(k) ==
    /\ cpc[k] = "waiting"
    /\ s2c[k] # <<>>
    /\ \E n \in 1..Len(s2c[k]) :
          LET buf == cbuf[k] \o SubSeq(s2c[k], 1, n)
          IN /\ s2c' = [s2c EXCEPT ![k] = SubSeq(s2c[k], n+1, Len(s2c[k]))]
             /\ IF HasNewline(buf)
                THEN LET response == Some(Strip(SplitLine(buf).line))
                     IN /\ cresponse' = [cresponse EXCEPT ![k] = response]
                        /\ cpc' = [cpc EXCEPT ![k] =
                                     IF ResponseAccepted(response)
                                     THEN "continued" ELSE "exit1"]
                        /\ cbuf' = [cbuf EXCEPT ![k] = <<>>]
                        /\ cdeadline' = [cdeadline EXCEPT ![k] = 0]
                ELSE /\ cbuf' = [cbuf EXCEPT ![k] = buf]
                     /\ cdeadline' = [cdeadline EXCEPT ![k] = now + RECEIVE_TIMEOUT]
                     /\ UNCHANGED <<cresponse, cpc>>
    /\ UNCHANGED <<running, sock, messages, reader, rbuf, wpc,
                   wdeadline, wnotified, wresult, c2s,
                   enqueued, returned, held, nreplies, lastReply, written, now,
                   smVars, envVars,
                   colVars, frameVars, buildVars, threadVars, scenVars, launchVars, smOpVars>>

\* TestClient.receive: recv raises socket.timeout, receive returns None
\* and main returns 1
ClientTimeout(k) ==
    /\ cpc[k] = "waiting"
    /\ s2c[k] = <<>>
    /\ now >= cdeadline[k]
    /\ cresponse' = [cresponse EXCEPT ![k] = None]
    /\ cpc' = [cpc EXCEPT ![k] = "exit1"]
    /\ cbuf' = [cbuf EXCEPT ![k] = <<>>]
    /\ cdeadline' = [cdeadline EXCEPT ![k] = 0]
    /\ UNCHANGED <<running, sock, messages, reader, rbuf, wpc,
                   wdeadline, wnotified, wresult, c2s, s2c,
                   enqueued, returned, held, nreplies, lastReply, written, now,
                   smVars, envVars,
                   colVars, frameVars, buildVars, threadVars, scenVars, launchVars, smOpVars>>

\* main after CONTINUE: 2-worker-2-parallel sends DONE, 1-worker-2-sequential
\* does not; then client.close() and return 0
ClientProceedWith(k, sendsDone) ==
    /\ cpc[k] = "continued"
    /\ LET bytes == IF sendsDone THEN DONE \o <<NL>> ELSE <<>>
       IN /\ c2s' = [c2s EXCEPT ![k] = c2s[k] \o bytes]
          /\ sent' = [sent EXCEPT ![k] = sent[k] \o bytes]
    /\ cpc' = [cpc EXCEPT ![k] = "exit0"]
    /\ UNCHANGED <<running, sock, messages, reader, rbuf, wpc,
                   wdeadline, wnotified, wresult, s2c, cbuf, cdeadline,
                   cresponse, enqueued, returned, held, nreplies, lastReply, written, now,
                   smVars, envVars,
                   colVars, smOpVars, buildVars, threadVars, scenVars, launchVars>>

\* the main of either test binary after CONTINUE
ClientProceed(k) == \E sendsDone \in BOOLEAN : ClientProceedWith(k, sendsDone)

----------------------------------------------------------------------------
(* Message coordination: the helpers the harness thread calls *)

StartsWith(s, p) == Len(s) >= Len(p) /\ SubSeq(s, 1, Len(p)) = p

FirstColon(s) == CHOOSE i \in 1..Len(s) :
                    s[i] = ":" /\ \A j \in 1..(i-1) : s[j] # ":"
LastColon(s) == CHOOSE i \in 1..Len(s) :
                   s[i] = ":" /\ \A j \in (i+1)..Len(s) : s[j] # ":"

AfterLastColon(s) == SubSeq(s, LastColon(s) + 1, Len(s))
\* content.split(":", 1)[1]
AfterFirstColon(s) == SubSeq(s, FirstColon(s) + 1, Len(s))

Accepted(id) == [ok |-> TRUE, id |-> id]
Rejected == [ok |-> FALSE, id |-> <<>>]

\* wait_for_started_messages: the test on msg.content
MatchStarted(content, prefix) ==
    IF content = prefix THEN Accepted(<<>>)
    ELSE IF StartsWith(content, prefix \o <<":">>)
         THEN Accepted(AfterFirstColon(content))
         ELSE Rejected

MatchGroupStrict(content, testId) ==
    IF content = STARTED \o <<":">> \o testId THEN Accepted(testId)
    ELSE Rejected
\* wait_for_test_group: the test on msg.content
MatchGroup(content, testId) ==
    IF content = STARTED \o <<":">> \o testId THEN Accepted(testId)
    ELSE IF StartsWith(content, STARTED \o <<":">>)
         THEN Accepted(AfterFirstColon(content))
         ELSE Rejected

Match(kind, content, arg) ==
    IF kind = "started" THEN MatchStarted(content, arg) ELSE MatchGroup(content, arg)

OnRejectedSkip == "loop"
\* the else branch of the test on msg.content: `return None`
OnRejected == "done"

RemainingPerMessage(timeout, start, t) == timeout
\* remaining = timeout - (time.time() - start_time)
Remaining(timeout, start, t) == timeout - (t - start)

ExpectNoResultInverted(r) == IF r.some THEN "True" ELSE "False"
\* expect_no_message: `if msg is not None: return False`, else True
ExpectNoResult(r) == IF r.some THEN "False" ELSE "True"

\* wait_for_started_messages(server, n, t, prefix) or
\* wait_for_test_group(server, test_id, n, t) is called by thread w:
\* collected = CollectedMessages(); start_time = time.time()
CollectCall(w, kind, n, t, arg) ==
    /\ colPc = "idle"
    /\ sock = "listening"
    /\ wpc[w] = "idle"
    /\ colPc' = "loop"
    /\ colKind' = kind
    /\ colCount' = n
    /\ colTimeout' = t
    /\ colPrefix' = arg
    /\ colStart' = now
    /\ collected' = <<>>
    /\ testIds' = <<>>
    /\ colTaken' = <<>>
    /\ colBase' = Len(enqueued)
    /\ UNCHANGED <<colResult, raIdx, raResponse, raResult, raTried,
                   serverVars, smVars, envVars, frameVars, buildVars, threadVars, scenVars, launchVars, smOpVars, now>>

\* expect_no_message(server, t) is called by thread w and enters
\* server.wait_for_message_with_conn(t)
ExpectNoCall(w, t) ==
    /\ colPc = "idle"
    /\ sock = "listening"
    /\ wpc[w] = "idle"
    /\ colPc' = "inwait"
    /\ colKind' = "absence"
    /\ colTimeout' = t
    /\ colStart' = now
    /\ colTaken' = <<>>
    /\ colBase' = Len(enqueued)
    /\ EnterWait(w, t)
    /\ UNCHANGED <<colCount, colPrefix, collected, testIds, colResult,
                   raIdx, raResponse, raResult, raTried,
                   running, sock, messages, reader, rbuf, wnotified, wresult,
                   c2s, s2c, cpc, cbuf, cdeadline, cresponse,
                   enqueued, returned, held, nreplies, lastReply, written,
                   smVars, envVars, frameVars, buildVars, threadVars, scenVars, launchVars, smOpVars, now>>

\* expect_message: `if message != expected: return False`, else True, on
\* the content wait_for_message returned (None on a timeout)
ExpectResult(r, expected) ==
    IF r.some /\ r.val.content = expected THEN "True" ELSE "False"

\* expect_message(server, expected, t) is called by thread w and enters
\* server.wait_for_message(t)
ExpectCall(w, expected, t) ==
    /\ colPc = "idle"
    /\ sock = "listening"
    /\ wpc[w] = "idle"
    /\ colPc' = "inwait"
    /\ colKind' = "expect"
    /\ colTimeout' = t
    /\ colPrefix' = expected
    /\ colStart' = now
    /\ colTaken' = <<>>
    /\ colBase' = Len(enqueued)
    /\ EnterWait(w, t)
    /\ UNCHANGED <<colCount, collected, testIds, colResult,
                   raIdx, raResponse, raResult, raTried,
                   running, sock, messages, reader, rbuf, wnotified, wresult,
                   c2s, s2c, cpc, cbuf, cdeadline, cresponse,
                   enqueued, returned, held, nreplies, lastReply, written,
                   smVars, envVars, frameVars, buildVars, threadVars, scenVars, launchVars, smOpVars, now>>

\* one pass of `while len(collected) < count` up to the call of
\* server.wait_for_message_with_conn(remaining)
CollectLoop(w) ==
    /\ colPc = "loop"
    /\ IF ~(Len(collected) < colCount)
       THEN /\ colPc' = "done"
            /\ colResult' = "group"
            /\ UNCHANGED <<wpc, wdeadline>>
       ELSE LET remaining == Remaining(colTimeout, colStart, now)
            IN IF remaining <= 0
               THEN /\ colPc' = "done"
                    /\ colResult' = "None"
                    /\ UNCHANGED <<wpc, wdeadline>>
               ELSE /\ colPc' = "inwait"
                    /\ EnterWait(w, remaining)
                    /\ UNCHANGED colResult
    /\ UNCHANGED <<colKind, colCount, colTimeout, colPrefix, colStart,
                   collected, testIds, colTaken, colBase,
                   raIdx, raResponse, raResult, raTried,
                   running, sock, messages, reader, rbuf, wnotified, wresult,
                   c2s, s2c, cpc, cbuf, cdeadline, cresponse,
                   enqueued, returned, held, nreplies, lastReply, written,
                   smVars, envVars, frameVars, buildVars, threadVars, scenVars, launchVars, smOpVars, now>>

\* server.wait_for_message_with_conn has returned to the helper: None ends
\* the call; a frame is tested and appended, or ends the call
CollectGot(w) ==
    /\ colPc = "inwait"
    /\ wpc[w] = "returned"
    /\ LeaveWait(w, colKind # "expect")
    /\ LET r == wresult[w]
       IN /\ colTaken' = IF r.some THEN Append(colTaken, r.val) ELSE colTaken
          /\ IF colKind = "absence"
             THEN /\ colPc' = "done"
                  /\ colResult' = ExpectNoResult(r)
                  /\ UNCHANGED <<collected, testIds>>
             ELSE IF colKind = "expect"
             THEN /\ colPc' = "done"
                  /\ colResult' = ExpectResult(r, colPrefix)
                  /\ UNCHANGED <<collected, testIds>>
             ELSE IF ~r.some
             THEN /\ colPc' = "done"
                  /\ colResult' = "None"
                  /\ UNCHANGED <<collected, testIds>>
             ELSE LET m == Match(colKind, r.val.content, colPrefix)
                  IN IF m.ok
                     THEN /\ collected' = Append(collected, r.val)
                          /\ testIds' = Append(testIds, m.id)
                          /\ colPc' = "loop"
                          /\ UNCHANGED colResult
                     ELSE /\ colPc' = OnRejected
                          /\ colResult' = IF OnRejected = "done" THEN "None"
                                          ELSE colResult
                          /\ UNCHANGED <<collected, testIds>>
    /\ UNCHANGED <<colKind, colCount, colTimeout, colPrefix, colStart, colBase,
                   raIdx, raResponse, raResult, raTried,
                   running, sock, messages, reader, rbuf, wnotified,
                   c2s, s2c, cpc, cbuf, cdeadline, cresponse,
                   enqueued, returned, nreplies, lastReply, written,
                   smVars, envVars, frameVars, buildVars, threadVars, scenVars, launchVars, smOpVars, now>>

\* time passes while the harness thread is blocked in condition.wait
TickBlocked(w) ==
    /\ wpc[w] = "waiting"
    /\ ~wnotified[w]
    /\ now < wdeadline[w]
    /\ now' = now + TickSeconds
    /\ UNCHANGED <<serverVars, smVars, envVars, colVars, frameVars, buildVars, threadVars, scenVars, launchVars, smOpVars>>

ReplyAllAfterAlways(result) == "next"
\* reply_all: `if not SocketServer.reply(msg, response): return False`
ReplyAllAfter(result) == IF result = "True" THEN "next" ELSE "return"

\* collected.reply_all(response) is called on the group a helper returned
ReplyAllCall(response) ==
    /\ colPc = "done"
    /\ colResult = "group"
    /\ raIdx = 0
    /\ raIdx' = 1
    /\ raResponse' = response
    /\ raResult' = "none"
    /\ raTried' = <<>>
    /\ UNCHANGED <<colPc, colKind, colCount, colTimeout, colPrefix, colStart,
                   collected, testIds, colResult, colTaken, colBase,
                   serverVars, smVars, envVars, frameVars, buildVars, threadVars, scenVars, launchVars, smOpVars, now>>

\* collected.continue_all()
ContinueAllCall == ReplyAllCall(CONTINUE)

\* reply_all: one pass of `for msg in self.messages`, or `return True` when
\* the list is exhausted
ReplyAllStep ==
    /\ raIdx >= 1
    /\ raResult = "none"
    /\ \/ /\ raIdx > Len(collected)
          /\ raResult' = "True"
          /\ UNCHANGED <<raIdx, raTried, nreplies, lastReply, s2c, written>>
       \/ /\ raIdx <= Len(collected)
          /\ SendReply(collected[raIdx], raResponse)
          /\ raTried' = Append(raTried,
                               [msg |-> collected[raIdx],
                                result |-> lastReply'.result,
                                open |-> ClientOpen(collected[raIdx].connection)])
          /\ IF ReplyAllAfter(lastReply'.result) = "next"
             THEN raIdx' = raIdx + 1 /\ UNCHANGED raResult
             ELSE raResult' = lastReply'.result /\ UNCHANGED raIdx
    /\ UNCHANGED <<colPc, colKind, colCount, colTimeout, colPrefix, colStart,
                   collected, testIds, colResult, colTaken, colBase, raResponse,
                   running, sock, messages, reader, rbuf, wpc,
                   wdeadline, wnotified, wresult, c2s, cpc, cbuf, cdeadline,
                   cresponse, enqueued, returned, held, now,
                   smVars, envVars, frameVars, buildVars, threadVars, scenVars, launchVars, smOpVars>>

TerminateNever(group) == FALSE
\* run_and_collect_started: `if collected is None: bazel_proc.terminate()`
TerminateOn(group) == group = "None"

\* run_and_collect_started(server, bazel_proc, count, timeout) is entered;
\* it calls wait_for_started_messages(server, count, timeout) next
RunAndCollectCall ==
    /\ racPc = "none"
    /\ colPc = "idle"
    /\ sock = "listening"
    /\ racPc' = "collect"
    /\ UNCHANGED <<racResult, bazelTerms, bazelDown, threadVars, scenVars, launchVars, serverVars, smVars,
                   envVars, colVars, frameVars, smOpVars, now>>

\* wait_for_started_messages has returned to run_and_collect_started: the
\* build process is terminated when the result is None; the result is
\* returned
RunAndCollectReturn ==
    /\ racPc = "collect"
    /\ colPc = "done"
    /\ racPc' = "done"
    /\ racResult' = colResult
    /\ bazelTerms' = IF TerminateOn(colResult) THEN bazelTerms + 1 ELSE bazelTerms
    /\ UNCHANGED <<bazelDown, threadVars, scenVars, launchVars, serverVars, smVars,
                   envVars, colVars, frameVars, smOpVars, now>>

----------------------------------------------------------------------------
(* The runners of the scenarios 1-worker-2-sequential and                  *)
(* 2-worker-2-parallel: main between run_bazel_tests and bazel_proc.wait.  *)
(* The test binaries are taken to reach the runner's server.               *)

\* the two test targets of a scenario, each run once: its binary uses one
\* connection
NumTests == 2
Tests == 1..NumTests
\* 1-worker-2-sequential: server.wait_for_message_with_conn(60)
SEQUENTIAL_WAIT == 60
\* 2-worker-2-parallel: server.wait_for_message_with_conn(30) and
\* server.wait_for_message(30)
PARALLEL_WAIT == 30

ScenTimeout(kind) == IF kind = "sequential" THEN SEQUENTIAL_WAIT ELSE PARALLEL_WAIT

StartedBatchAll(kind) == NumTests
\* STARTED frames the runner dequeues before it replies: msg1 is answered
\* before msg2 is awaited; `for i in range(2)` fills started_messages first
StartedBatch(kind) == IF kind = "sequential" THEN 1 ELSE NumTests

DoneRoundsOne(kind) == IF kind = "parallel" THEN 1 ELSE 0
\* DONE frames the runner awaits: `for i in range(2)` in the parallel
\* scenario, none in the sequential one
DoneRounds(kind) == IF kind = "parallel" THEN NumTests ELSE 0

\* the worker of the sequential scenario runs one action at a time, the
\* two workers of the parallel scenario run one each
WorkerFree(kind, k) ==
    kind = "sequential" => \A j \in Tests \ {k} : ~ClientOpen(j)

\* bazel_proc = run_bazel_tests(workspace, output_base), inside
\* `with SocketServer(TEST_PORT) as server`
ScenRunBazel ==
    /\ scPc = "none"
    /\ sock = "listening"
    /\ scPc' = "wait_started"
    /\ UNCHANGED <<scKind, scHeld, scReplied, scDones, scResult, serverVars,
                   smVars, envVars, colVars, frameVars, buildVars, threadVars,
                   smOpVars, launchVars, now>>

\* a test target is run by a free worker, bazel not having been terminated:
\* the binary sends STARTED
ScenTestStarts(k) ==
    /\ scPc # "none"
    /\ bazelTerms = 0
    /\ WorkerFree(scKind, k)
    /\ ClientSendStarted(k)

\* the binary of the scenario goes on after CONTINUE
ScenTestProceeds(k) == ClientProceedWith(k, scKind = "parallel")

\* the runner calls server.wait_for_message_with_conn(t) for a STARTED
\* frame, or server.wait_for_message(t) for a DONE frame
ScenCallWait ==
    /\ scPc \in {"wait_started", "wait_done"}
    /\ wpc[1] = "idle"
    /\ EnterWait(1, ScenTimeout(scKind))
    /\ UNCHANGED <<scenVars, launchVars, running, sock, messages, reader, rbuf, wnotified,
                   wresult, c2s, s2c, cpc, cbuf, cdeadline, cresponse,
                   enqueued, returned, held, nreplies, lastReply, written,
                   smVars, envVars, colVars, frameVars, buildVars, threadVars,
                   smOpVars, now>>

\* the content the runner compares the frame with
ScenExpected(pc) == IF pc = "wait_started" THEN STARTED ELSE DONE

\* where main goes after a frame it accepted
ScenAfterFrame(kind, pc, nheld, nreplied, ndones) ==
    IF pc = "wait_started"
    THEN IF nheld - nreplied = StartedBatch(kind) THEN "reply" ELSE "wait_started"
    ELSE IF ndones = DoneRounds(kind) THEN "bazel_wait" ELSE "wait_done"

\* the wait has returned: on None or on another content the runner
\* terminates bazel and returns 1
ScenWaitReturned ==
    /\ scPc \in {"wait_started", "wait_done"}
    /\ wpc[1] = "returned"
    /\ LeaveWait(1, scPc = "wait_started")
    /\ LET res == wresult[1]
           ok == res.some /\ res.val.content = ScenExpected(scPc)
           nheld == IF scPc = "wait_started" THEN Len(scHeld) + 1 ELSE Len(scHeld)
           ndones == IF scPc = "wait_done" THEN scDones + 1 ELSE scDones
       IN IF ok
          THEN /\ scHeld' = IF scPc = "wait_started"
                            THEN Append(scHeld, res.val) ELSE scHeld
               /\ scDones' = ndones
               /\ scPc' = ScenAfterFrame(scKind, scPc, nheld, scReplied, ndones)
               /\ UNCHANGED <<scResult, bazelTerms>>
          ELSE /\ scPc' = "done"
               /\ scResult' = "fail"
               /\ bazelTerms' = bazelTerms + 1
               /\ UNCHANGED <<scHeld, scDones>>
    /\ UNCHANGED <<scKind, scReplied, running, sock, messages, reader, rbuf,
                   wnotified, c2s, s2c, cpc, cbuf, cdeadline, cresponse,
                   enqueued, returned, nreplies, lastReply, written,
                   racPc, racResult, bazelDown,
                   smVars, envVars, colVars, frameVars, threadVars,
                   smOpVars, launchVars, now>>

\* where main goes after a reply that returned True
ScenAfterReply(kind, nheld, nreplied) ==
    IF nreplied < nheld THEN "reply"
    ELSE IF nheld < NumTests THEN "wait_started"
    ELSE IF DoneRounds(kind) > 0 THEN "wait_done" ELSE "bazel_wait"

\* `if not SocketServer.reply(msg, "CONTINUE"):` terminate bazel, return 1
ScenReply ==
    /\ scPc = "reply"
    /\ SendReply(scHeld[scReplied + 1], CONTINUE)
    /\ IF lastReply'.ok
       THEN /\ scReplied' = scReplied + 1
            /\ scPc' = ScenAfterReply(scKind, Len(scHeld), scReplied + 1)
            /\ UNCHANGED <<scResult, bazelTerms>>
       ELSE /\ scPc' = "done"
            /\ scResult' = "fail"
            /\ bazelTerms' = bazelTerms + 1
            /\ UNCHANGED scReplied
    /\ UNCHANGED <<scKind, scHeld, scDones, running, sock, messages, reader,
                   rbuf, wpc, wdeadline, wnotified, wresult, c2s, cpc, cbuf,
                   cdeadline, cresponse, enqueued, returned, held,
                   racPc, racResult, bazelDown,
                   smVars, envVars, colVars, frameVars, threadVars,
                   smOpVars, launchVars, now>>

\* the exit code of `bazel test`: 0 only when every test binary returned 0
BazelReturncode(buildFailed) ==
    IF ~buildFailed /\ \A k \in Tests : cpc[k] = "exit0" THEN 0 ELSE 1

\* bazel_proc.wait() returns once the test binaries have ended;
\* `if bazel_proc.returncode != 0: return 1`, else main goes on to return 0
ScenBazelExits(buildFailed) ==
    /\ scPc = "bazel_wait"
    /\ \A k \in Tests : cpc[k] \in {"exit0", "exit1", "nosend"}
    /\ scPc' = "done"
    /\ scResult' = IF BazelReturncode(buildFailed) = 0 THEN "pass" ELSE "fail"
    /\ UNCHANGED <<scKind, scHeld, scReplied, scDones, serverVars,
                   smVars, envVars, colVars, frameVars, buildVars, threadVars,
                   smOpVars, launchVars, now>>

\* no thread of the runner or of a test binary has a step to take
Settled ==
    /\ \A k \in Conns :
          /\ c2s[k] = <<>>
          /\ s2c[k] = <<>>
          /\ reader[k] # "parse"
          /\ cpc[k] # "continued"
          /\ ClientConnected(k) => reader[k] # "none"

\* time passes while the runner is blocked in condition.wait, or has
\* returned and left a test binary waiting, and every other thread is
\* blocked too: the steps of the threads take no time
ScenTick ==
    /\ Settled
    /\ \/ wpc[1] = "waiting" /\ ~wnotified[1] /\ now < wdeadline[1]
       \/ scPc = "done" /\ \E k \in Conns : cpc[k] = "waiting" /\ now < cdeadline[k]
    /\ now' = now + TickSeconds
    /\ UNCHANGED <<serverVars, smVars, envVars, colVars, frameVars, buildVars,
                   threadVars, scenVars, launchVars, smOpVars>>

----------------------------------------------------------------------------
(* ServiceManager *)

SIGTERM_TIMEOUT == 30
STARTUP_WAIT == 5

\* what _start_service can meet for a descriptor
Fates == {"ok", "nobinary", "noconfig", "spawnfail"}

\* exit status of a process that exits by itself (the supervisor only
\* stores it); a killed one has -9
ExitCodes == {0}
SIGKILLED == -9

Unborn == [st |-> "unborn"]
Running == [st |-> "running"]
Exited(code) == [st |-> "exited", code |-> code]
Gone == [st |-> "gone"]

IsRunningProc(p) == osState[p] = Running
HasExited(p) == osState[p].st = "exited"

ProcOfReversed(i) == processes[Len(processes) + 1 - i].proc
\* the Popen handles of self._processes, in list order
ProcOf(i) == processes[i].proc
ManagedProcs == {ProcOf(i) : i \in 1..Len(processes)}

\* the pid the next spawn gets
NextPid == Cardinality({p \in Procs : osState[p] # Unborn}) + 1

StartServiceNoCheck(f) == TRUE
\* _start_service(service): a Popen, or None when the binary or the config
\* path does not resolve or Popen raises OSError
StartService(f) ==
    IF f = "nobinary" THEN FALSE
    ELSE IF f = "noconfig" THEN FALSE
    ELSE IF f = "spawnfail" THEN FALSE
    ELSE TRUE

\* proc.poll(): None while the process runs; the exit status, which it
\* also stores in proc.returncode, once the process has exited
Poll(rc, p) == IF HasExited(p) THEN [rc EXCEPT ![p] = Some(osState[p].code)] ELSE rc

\* `proc.poll() is None`
PollSaysRunning(p) == ~HasExited(p)

\* index of the first process of the list that is still running, or
\* Len + 1: where `all(proc.poll() is not None ...)` stops polling
FirstRunning ==
    IF \E i \in 1..Len(processes) : IsRunningProc(ProcOf(i))
    THEN CHOOSE i \in 1..Len(processes) :
            /\ IsRunningProc(ProcOf(i))
            /\ \A j \in 1..(i-1) : ~IsRunningProc(ProcOf(j))
    ELSE Len(processes) + 1

\* proc.returncode of every process after all(...) polled the list up to
\* the first running one
PollAll(rc) ==
    [p \in Procs |->
       IF \E i \in 1..Len(processes) : i < FirstRunning /\ ProcOf(i) = p
       THEN Some(osState[p].code) ELSE rc[p]]

GraceOverAtOnce(t, deadline) == TRUE
\* stop(): `while time.time() < deadline` is left
GraceOver(t, deadline) == ~(t < deadline)

SMInit ==
    /\ callBad = 0
    /\ processes = <<>>
    /\ osState = [p \in Procs |-> Unborn]
    /\ returncode = [p \in Procs |-> None]
    /\ smPc = "idle"
    /\ smIdx = 0
    /\ smDeadline = 0
    /\ smRet = "caller"
    /\ smResult = "none"
    /\ calls = <<>>
    /\ callSpawned = {}
    /\ sigterms = [p \in Procs |-> 0]
    /\ kills = [p \in Procs |-> 0]
    /\ termAt = [p \in Procs |-> 0]

\* where stop() returns to: its caller, or the loop of restart()
AfterStop(ret) == IF ret = "restart" THEN "start_loop" ELSE "idle"

\* what the running call has returned once stop() is over: False when
\* stop() was the rollback of start() or restart(), nothing yet in restart()
ResultAfterStop(ret, result) ==
    IF ret = "start_fail" THEN "false"
    ELSE IF ret = "restart" THEN "none" ELSE result

\* stop() returns: to its caller, into the loop of restart(), or into
\* start() or restart() which then return False
StopReturns ==
    /\ smPc' = AfterStop(smRet)
    /\ smIdx' = IF smRet = "restart" THEN 1 ELSE 0
    /\ smDeadline' = 0
    /\ smRet' = "caller"
    /\ smResult' = ResultAfterStop(smRet, smResult)

StopEnterNoGuard(ret) ==
    /\ smPc' = "stop_term"
    /\ smIdx' = 1
    /\ smDeadline' = 0
    /\ smRet' = ret
    /\ UNCHANGED smResult
\* stop() is entered: `if not self._processes: return`
StopEnter(ret) ==
    IF processes = <<>>
    THEN /\ smPc' = AfterStop(ret)
         /\ smIdx' = IF ret = "restart" THEN 1 ELSE 0
         /\ smDeadline' = 0
         /\ smRet' = "caller"
         /\ smResult' = ResultAfterStop(ret, smResult)
    ELSE /\ smPc' = "stop_term"
         /\ smIdx' = 1
         /\ smDeadline' = 0
         /\ smRet' = ret
         /\ UNCHANGED smResult

\* start() is entered: _create_directories(), then the loop begins
StartEnter ==
    /\ smPc' = "start_loop"
    /\ smIdx' = 1
    /\ smResult' = "none"
    /\ callSpawned' = {}
    /\ callBad' = 0
    /\ mkdirs' = mkdirs + 1
    /\ UNCHANGED <<smDeadline, smRet>>

\* the scenario calls start(), on a manager whose set is empty
CallStart ==
    /\ smPc = "idle"
    /\ Len(calls) < MaxCalls
    /\ processes = <<>>
    /\ calls' = Append(calls, "start")
    /\ StartEnter
    /\ UNCHANGED <<processes, osState, returncode, sigterms, kills, termAt,
                   serverVars, envVars, now,
                   colVars, frameVars, buildVars, threadVars, scenVars, launchVars, isRunResult>>

\* the scenario calls start() on a manager whose set is not empty
CallStartAgain ==
    /\ smPc = "idle"
    /\ Len(calls) < MaxCalls
    /\ processes # <<>>
    /\ calls' = Append(calls, "start")
    /\ StartEnter
    /\ UNCHANGED <<processes, osState, returncode, sigterms, kills, termAt,
                   serverVars, envVars, now,
                   colVars, frameVars, buildVars, threadVars, scenVars, launchVars, isRunResult>>

\* the scenario calls stop()
CallStop ==
    /\ smPc = "idle"
    /\ Len(calls) < MaxCalls
    /\ calls' = Append(calls, "stop")
    /\ StopEnter("caller")
    /\ UNCHANGED <<callBad, processes, osState, returncode, callSpawned, sigterms,
                   kills, termAt, serverVars, envVars, now,
                   colVars, frameVars, buildVars, threadVars, scenVars, launchVars, smOpVars>>

RestartCreatesAlways == TRUE
\* restart(): "Don't recreate directories": _create_directories() is
\* not called
RestartCreatesDirectories == FALSE

\* the scenario calls restart(): stop(), then the loop of start()
CallRestart ==
    /\ smPc = "idle"
    /\ Len(calls) < MaxCalls
    /\ calls' = Append(calls, "restart")
    /\ callSpawned' = {}
    /\ callBad' = 0
    /\ mkdirs' = IF RestartCreatesDirectories THEN mkdirs + 1 ELSE mkdirs
    /\ StopEnter("restart")
    /\ UNCHANGED <<processes, osState, returncode, sigterms, kills, termAt,
                   serverVars, envVars, now,
                   colVars, frameVars, buildVars, threadVars, scenVars, launchVars, isRunResult>>

IsRunningValueAny == \E i \in 1..Len(processes) : PollSaysRunning(ProcOf(i))
\* all(proc.poll() is None for _, proc in self._processes)
IsRunningValue == \A i \in 1..Len(processes) : PollSaysRunning(ProcOf(i))

\* index of the first process of the list that has exited, or Len + 1:
\* where all(...) stops polling
FirstExited ==
    IF \E i \in 1..Len(processes) : HasExited(ProcOf(i))
    THEN CHOOSE i \in 1..Len(processes) :
            /\ HasExited(ProcOf(i))
            /\ \A j \in 1..(i-1) : ~HasExited(ProcOf(j))
    ELSE Len(processes) + 1

\* proc.returncode of every process after all(...) polled the list up to
\* the first exited one
PollUntilExited(rc) ==
    [p \in Procs |->
       IF FirstExited <= Len(processes) /\ ProcOf(FirstExited) = p
       THEN Some(osState[p].code) ELSE rc[p]]

\* the scenario calls is_running()
CallIsRunning ==
    /\ smPc = "idle"
    /\ Len(calls) < MaxCalls
    /\ calls' = Append(calls, "is_running")
    /\ isRunResult' = IF IsRunningValue THEN "true" ELSE "false"
    /\ returncode' = PollUntilExited(returncode)
    /\ UNCHANGED <<callBad, processes, osState, smPc, smIdx, smDeadline, smRet,
                   smResult, callSpawned, sigterms, kills, termAt,
                   serverVars, envVars, now,
                   colVars, frameVars, buildVars, threadVars, scenVars, launchVars, mkdirs>>

\* start(): one pass of `for service in self.services`: the service is
\* spawned and appended, or start() calls stop() and returns False; after
\* the last service, time.sleep(STARTUP_WAIT) begins.  What
\* _start_service meets for the descriptor is the environment's choice.
StartStep ==
    /\ smPc = "start_loop"
    /\ IF smIdx > NumServices
       THEN /\ smPc' = "start_sleep"
            /\ smDeadline' = now + STARTUP_WAIT
            /\ smIdx' = 0
            /\ UNCHANGED <<callBad, processes, osState, callSpawned, smRet, smResult>>
       ELSE \E f \in Fates :
              IF StartService(f)
              THEN /\ processes' = Append(processes,
                                      [service |-> smIdx, proc |-> NextPid])
                   /\ osState' = [osState EXCEPT ![NextPid] = Running]
                   /\ callSpawned' = callSpawned \cup {NextPid}
                   /\ smIdx' = smIdx + 1
                   /\ callBad' = IF f = "ok" THEN callBad ELSE smIdx
                   /\ UNCHANGED <<smPc, smDeadline, smRet, smResult>>
              ELSE /\ StopEnter("start_fail")
                   /\ callBad' = smIdx
                   /\ UNCHANGED <<processes, osState, callSpawned>>
    /\ UNCHANGED <<returncode, calls, sigterms, kills, termAt,
                   serverVars, envVars, now,
                   colVars, frameVars, buildVars, threadVars, scenVars, launchVars, smOpVars>>

\* start(): the sleep is over, `return True`
StartReturn ==
    /\ smPc = "start_sleep"
    /\ now >= smDeadline
    /\ smPc' = "idle"
    /\ smDeadline' = 0
    /\ smResult' = "true"
    /\ UNCHANGED <<callBad, processes, osState, returncode, smIdx, smRet, calls,
                   callSpawned, sigterms, kills, termAt, serverVars, envVars, now,
                   colVars, frameVars, buildVars, threadVars, scenVars, launchVars, smOpVars>>

\* stop(): one pass of the SIGTERM loop: a process whose poll says it is
\* running is sent SIGTERM; after the last one the deadline is set
StopTermStep ==
    /\ smPc = "stop_term"
    /\ IF smIdx > Len(processes)
       THEN /\ smPc' = "stop_wait"
            /\ smDeadline' = now + SIGTERM_TIMEOUT
            /\ smIdx' = 0
            /\ UNCHANGED <<returncode, sigterms, termAt>>
       ELSE LET p == ProcOf(smIdx)
            IN /\ returncode' = Poll(returncode, p)
               /\ IF PollSaysRunning(p)
                  THEN /\ sigterms' = [sigterms EXCEPT ![p] = @ + 1]
                       /\ termAt' = [termAt EXCEPT ![p] = now]
                  ELSE UNCHANGED <<sigterms, termAt>>
               /\ smIdx' = smIdx + 1
               /\ UNCHANGED <<smPc, smDeadline>>
    /\ UNCHANGED <<callBad, processes, osState, smRet, smResult, calls, callSpawned,
                   kills, serverVars, envVars, now,
                   colVars, frameVars, buildVars, threadVars, scenVars, launchVars, smOpVars>>

\* stop(): one pass of `while time.time() < deadline`: leave the loop when
\* every process has exited, else sleep 0.1 s and look again
StopWaitStep ==
    /\ smPc = "stop_wait"
    /\ IF GraceOver(now, smDeadline)
       THEN /\ smPc' = "stop_kill"
            /\ smIdx' = 1
            /\ UNCHANGED returncode
       ELSE /\ returncode' = PollAll(returncode)
            /\ IF FirstRunning > Len(processes)
               THEN smPc' = "stop_kill" /\ smIdx' = 1
               ELSE UNCHANGED <<smPc, smIdx>>
    /\ UNCHANGED <<callBad, processes, osState, smDeadline, smRet, smResult, calls,
                   callSpawned, sigterms, kills, termAt, serverVars, envVars, now,
                   colVars, frameVars, buildVars, threadVars, scenVars, launchVars, smOpVars>>

\* stop(): one pass of the kill loop: a process whose poll says it is
\* still running is killed
StopKillStep ==
    /\ smPc = "stop_kill"
    /\ IF smIdx > Len(processes)
       THEN /\ smPc' = "stop_reap"
            /\ smIdx' = 1
            /\ UNCHANGED <<returncode, kills>>
       ELSE LET p == ProcOf(smIdx)
            IN /\ returncode' = Poll(returncode, p)
               /\ kills' = IF PollSaysRunning(p)
                           THEN [kills EXCEPT ![p] = @ + 1] ELSE kills
               /\ smIdx' = smIdx + 1
               /\ UNCHANGED smPc
    /\ UNCHANGED <<callBad, processes, osState, smDeadline, smRet, smResult, calls,
                   callSpawned, sigterms, termAt, serverVars, envVars, now,
                   colVars, frameVars, buildVars, threadVars, scenVars, launchVars, smOpVars>>

ReapSkip(rc, p) == rc
\* proc.wait(): returns once the process has exited, its status stored in
\* proc.returncode
Reap(rc, p) == [rc EXCEPT ![p] = Some(osState[p].code)]

\* proc.wait() can return
WaitCanReturn(p) == HasExited(p)

\* stop(): one pass of the final loop: proc.wait() blocks until the
\* process has exited; after the last one self._processes.clear() drops
\* the Popen objects of the waited-on processes and stop() returns
StopReapStep ==
    /\ smPc = "stop_reap"
    /\ IF smIdx > Len(processes)
       THEN /\ processes' = <<>>
            /\ osState' = [p \in Procs |->
                             IF p \in ManagedProcs THEN Gone ELSE osState[p]]
            /\ returncode' = [p \in Procs |->
                                IF p \in ManagedProcs THEN None ELSE returncode[p]]
            /\ kills' = [p \in Procs |-> IF p \in ManagedProcs THEN 0 ELSE kills[p]]
            /\ termAt' = [p \in Procs |-> IF p \in ManagedProcs THEN 0 ELSE termAt[p]]
            /\ StopReturns
       ELSE LET p == ProcOf(smIdx)
            IN /\ WaitCanReturn(p)
               /\ returncode' = Reap(returncode, p)
               /\ smIdx' = smIdx + 1
               /\ UNCHANGED <<processes, osState, kills, termAt,
                              smPc, smDeadline, smRet, smResult>>
    /\ UNCHANGED <<callBad, calls, callSpawned, sigterms,
                   serverVars, envVars, now,
                   colVars, frameVars, buildVars, threadVars, scenVars, launchVars, smOpVars>>

\* a step of the supervisor thread inside start() or stop()
SMStep ==
    \/ StartStep
    \/ StartReturn
    \/ StopTermStep
    \/ StopWaitStep
    \/ StopKillStep
    \/ StopReapStep

\* a managed process exits: by itself at any time (crash, clean exit,
\* reaction to SIGTERM), or because it was killed
ProcExit(p) ==
    /\ IsRunningProc(p)
    /\ \E code \in (IF kills[p] > 0 THEN {SIGKILLED} ELSE ExitCodes) :
          osState' = [osState EXCEPT ![p] = Exited(code)]
    /\ UNCHANGED <<callBad, processes, returncode, smPc, smIdx, smDeadline, smRet,
                   smResult, calls, callSpawned, sigterms, kills, termAt,
                   serverVars, envVars, now,
                   colVars, frameVars, buildVars, threadVars, scenVars, launchVars, smOpVars>>

----------------------------------------------------------------------------
(* test_environment_with_socket *)

EnvInit ==
    /\ envPc = "none"
    /\ envExc = "none"
    /\ envBody = "none"

\* how the caller's with body can end
BodyOutcomes == {"return0", "return1", "raise"}

\* `with SocketServer(socket_port) as server`: __enter__ calls start();
\* bind() raises OSError when the port is taken, and __exit__ is not run
EnvEnter ==
    /\ envPc = "none"
    /\ sock = "none"
    /\ \/ /\ sock' = "listening"
          /\ running' = TRUE
          /\ envPc' = "construct"
          /\ UNCHANGED envExc
       \/ /\ sock' = "unbound"
          /\ envPc' = "rmtree"
          /\ envExc' = "OSError"
          /\ UNCHANGED running
    /\ UNCHANGED <<envBody, queueVars, smVars, now,
                   colVars, frameVars, buildVars, threadVars, scenVars, launchVars, smOpVars>>

\* service_manager = ServiceManager(working_dir, list(services), ...)
EnvConstruct ==
    /\ envPc = "construct"
    /\ envPc' = "constructed"
    /\ UNCHANGED <<envExc, envBody, serverVars, smVars, now,
                   colVars, frameVars, buildVars, threadVars, scenVars, launchVars, smOpVars>>

\* service_manager.start() is called
EnvStart ==
    /\ envPc = "constructed"
    /\ smPc = "idle"
    /\ envPc' = "starting"
    /\ calls' = Append(calls, "start")
    /\ StartEnter
    /\ UNCHANGED <<processes, osState, returncode, sigterms, kills, termAt,
                   envExc, envBody, serverVars, now,
                   colVars, frameVars, buildVars, threadVars, scenVars, launchVars, isRunResult>>

\* start() has returned: `if not service_manager.start(): raise
\* RuntimeError(...)`, else the context is yielded to the caller's body
EnvStarted ==
    /\ envPc = "starting"
    /\ smPc = "idle"
    /\ IF smResult = "true"
       THEN envPc' = "body" /\ UNCHANGED envExc
       ELSE envPc' = "server_exit" /\ envExc' = "RuntimeError"
    /\ UNCHANGED <<envBody, serverVars, smVars, now,
                   colVars, frameVars, buildVars, threadVars, scenVars, launchVars, smOpVars>>

AfterBodyNoFinally(outcome) == IF outcome = "raise" THEN "server_exit" ELSE "finally"
\* `try: yield ... finally: service_manager.stop()`: where control goes
\* when the caller's body ends
AfterBody(outcome) == "finally"

\* the caller's body ends: it returns (the test's exit code 0 or 1), or an
\* exception leaves it and is thrown into the generator at the yield
EnvBodyEnds(outcome) ==
    /\ envPc = "body"
    /\ envBody' = outcome
    /\ envExc' = IF outcome = "raise" THEN "BodyError" ELSE "none"
    /\ envPc' = AfterBody(outcome)
    /\ UNCHANGED <<serverVars, smVars, now,
                   colVars, frameVars, buildVars, threadVars, scenVars, launchVars, smOpVars>>

\* finally: service_manager.stop() is called
EnvFinallyStop ==
    /\ envPc = "finally"
    /\ smPc = "idle"
    /\ envPc' = "stopping"
    /\ calls' = Append(calls, "stop")
    /\ StopEnter("caller")
    /\ UNCHANGED <<callBad, processes, osState, returncode, callSpawned,
                   sigterms, kills, termAt, envExc, envBody, serverVars, now,
                   colVars, frameVars, buildVars, threadVars, scenVars, launchVars, smOpVars>>

\* stop() has returned; the with statement is left
EnvStopped ==
    /\ envPc = "stopping"
    /\ smPc = "idle"
    /\ envPc' = "server_exit"
    /\ UNCHANGED <<envExc, envBody, serverVars, smVars, now,
                   colVars, frameVars, buildVars, threadVars, scenVars, launchVars, smOpVars>>

\* SocketServer.__exit__: stop() clears _running and closes the socket;
\* then shutdown_bazel(...) unless an exception is propagating
EnvServerExit ==
    /\ envPc = "server_exit"
    /\ running' = FALSE
    /\ sock' = "closed"
    /\ envPc' = IF envExc = "none" THEN "shutdown_bazel" ELSE "rmtree"
    /\ UNCHANGED <<envExc, envBody, queueVars, smVars, now,
                   colVars, frameVars, buildVars, threadVars, scenVars, launchVars, smOpVars>>

\* shutdown_bazel(workspace, output_base)
EnvShutdownBazel ==
    /\ envPc = "shutdown_bazel"
    /\ envPc' = "rmtree"
    /\ bazelDown' = TRUE
    /\ UNCHANGED <<envExc, envBody, serverVars, smVars, now,
                   colVars, frameVars, racPc, racResult, bazelTerms,
                   threadVars, scenVars, launchVars, smOpVars>>

\* outer finally: shutil.rmtree(working_dir); the context manager exits
EnvCleanup ==
    /\ envPc = "rmtree"
    /\ envPc' = "done"
    /\ UNCHANGED <<envExc, envBody, serverVars, smVars, now,
                   colVars, frameVars, buildVars, threadVars, scenVars, launchVars, smOpVars>>

----------------------------------------------------------------------------
(* Initial values of the harness thread, the histories and the queries *)

ColInit ==
    /\ colPc = "idle"
    /\ colKind = "none"
    /\ colCount = 0
    /\ colTimeout = 0
    /\ colPrefix = <<>>
    /\ colStart = 0
    /\ collected = <<>>
    /\ testIds = <<>>
    /\ colResult = "none"
    /\ colTaken = <<>>
    /\ colBase = 0
    /\ raIdx = 0
    /\ raResponse = <<>>
    /\ raResult = "none"
    /\ raTried = <<>>

ScenKinds == {"sequential", "parallel"}

\* no runner of a scenario has started; kinds are the scenarios it may be
ScenInit(kinds) ==
    /\ scPc = "none"
    /\ scKind \in kinds
    /\ scHeld = <<>>
    /\ scReplied = 0
    /\ scDones = 0
    /\ scResult = "none"

ThreadInit ==
    /\ acceptPc = "none"
    /\ stopPc = "none"

\* bare/main.py: the entries of BUILDBARN_PROCESSES, in order
Buildbarn == 1..NumBuildbarn

\* bare/main.py: SIGTERM_TIMEOUT (seconds)
LAUNCHER_SIGTERM_TIMEOUT == 60

\* BuildbarnLauncher.__init__ on one of the platforms
LaunchInit(platforms) ==
    /\ platform \in platforms
    /\ bbPc = "init"
    /\ bbIdx = 0
    /\ bbProcesses = <<>>
    /\ shutdown_requested = FALSE
    /\ kill_requested = FALSE
    /\ bbState = [p \in Buildbarn |-> "none"]
    /\ bbExit = [p \in Buildbarn |-> 0]
    /\ bbReturncode = [p \in Buildbarn |-> None]
    /\ bbDeadline = 0
    /\ bbResult = -1
    /\ bbStartFailed = FALSE
    /\ bbTermSent = [p \in Buildbarn |-> FALSE]
    /\ bbKilled = [p \in Buildbarn |-> FALSE]
    /\ bbSignals = 0

BuildInit ==
    /\ racPc = "none"
    /\ racResult = "none"
    /\ bazelTerms = 0
    /\ bazelDown = FALSE

FrameInit == sent = [k \in Conns |-> <<>>]

SMOpInit ==
    /\ isRunResult = "none"
    /\ mkdirs = 0

----------------------------------------------------------------------------
(* Time *)

\* a sleep or a timed loop of the supervisor is waiting for the clock
TimerPending == smPc \in {"stop_wait", "start_sleep"} /\ now < smDeadline

Tick ==
    /\ now < MaxTime \/ TimerPending
    /\ now' = now + TickSeconds
    /\ UNCHANGED <<serverVars, smVars, envVars,
                   colVars, frameVars, buildVars, threadVars, scenVars, launchVars, smOpVars>>

----------------------------------------------------------------------------
(* The message queue: connection readers against concurrent waiters.      *)
(* No reply is sent, every test binary gives up waiting for CONTINUE.      *)

Init ==
    /\ ServerInit
    /\ SMInit
    /\ EnvInit
    /\ ColInit
    /\ FrameInit
    /\ SMOpInit
    /\ BuildInit
    /\ ThreadInit
    /\ ScenInit({"none"})
    /\ LaunchInit({"posix"})
    /\ now = 0

Next ==
    \/ ServerStart
    \/ \E k \in Conns : Accept(k)
    \/ \E k \in Conns : ReaderRecv(k)
    \/ \E k \in Conns : ReaderEOF(k)
    \/ \E k \in Conns : ReaderParseLine(k)
    \/ \E w \in Waiters, t \in WaitTimeouts : WaitCall(w, t)
    \/ \E w \in Waiters : WaitCheck(w)
    \/ \E w \in Waiters, c \in BOOLEAN : WaitReturn(w, c)
    \/ \E k \in Conns : ClientSendStarted(k)
    \/ \E k \in Conns : ClientTimeout(k)
    \/ Tick

Spec == Init /\ [][Next]_vars

----------------------------------------------------------------------------
(* The rendezvous: one harness thread dequeues frames and replies, the     *)
(* test binaries wait for the reply.                                       *)

Harness == {1}
HarnessTimeouts == {5}

NextRendezvous ==
    \/ ServerStart
    \/ \E k \in Conns : Accept(k)
    \/ \E k \in Conns : ReaderRecv(k)
    \/ \E k \in Conns : ReaderEOF(k)
    \/ \E k \in Conns : ReaderParseLine(k)
    \/ \E w \in Harness, t \in HarnessTimeouts : WaitCall(w, t)
    \/ \E w \in Harness : WaitCheck(w)
    \/ \E w \in Harness, c \in BOOLEAN : WaitReturn(w, c)
    \/ \E m \in held, r \in {CONTINUE, OtherText} : Reply(m, r)
    \/ \E k \in Conns : ClientSendStarted(k)
    \/ \E k \in Conns : ClientRecv(k)
    \/ \E k \in Conns : ClientTimeout(k)
    \/ \E k \in Conns : ClientProceed(k)
    \/ Tick

SpecRendezvous == Init /\ [][NextRendezvous]_vars

----------------------------------------------------------------------------
(* The aggregation helpers: the harness thread calls one helper while the  *)
(* test binaries send one line each.  Computation takes no time: the clock *)
(* advances only while the harness thread is blocked.                      *)

\* lines the test binaries send
CollectLines == { STARTED,
                  STARTED \o <<":", "a">>,
                  STARTED \o <<":", "a", ":", "b">>,
                  STARTED \o OtherText }

CollectCounts == {0, 1, 2}
CollectTimeouts == {0, TickSeconds, 2 * TickSeconds}
CollectArgs == [started |-> {STARTED}, group |-> {<<"a">>}]

InitCollect ==
    /\ ServerInit
    /\ SMInit
    /\ EnvInit
    /\ ColInit
    /\ FrameInit
    /\ SMOpInit
    /\ BuildInit
    /\ ThreadInit
    /\ ScenInit({"none"})
    /\ LaunchInit({"posix"})
    /\ now = 0

NextCollect ==
    \/ ServerStart
    \/ \E k \in Conns : Accept(k)
    \/ \E k \in Conns : ReaderRecvAll(k)
    \/ \E k \in Conns : ReaderParseLine(k)
    \/ \E k \in Conns, line \in CollectLines : ClientSendLine(k, line)
    \/ \E w \in Harness, kind \in {"started", "group"}, n \in CollectCounts,
          t \in CollectTimeouts :
          \E arg \in CollectArgs[kind] : CollectCall(w, kind, n, t, arg)
    \/ \E w \in Harness, t \in CollectTimeouts : ExpectNoCall(w, t)
    \/ \E w \in Harness : CollectLoop(w)
    \/ \E w \in Harness : WaitCheck(w)
    \/ \E w \in Harness : CollectGot(w)
    \/ \E w \in Harness : TickBlocked(w)

SpecCollect == InitCollect /\ [][NextCollect]_vars

----------------------------------------------------------------------------
(* Framing: each client sends one message, which may hold blanks and line   *)
(* breaks; recv hands the handler the bytes in pieces of any size.           *)

\* messages given to TestClient.send
FramingTexts == { STARTED,
                  <<" ">> \o STARTED \o <<"\t">>,
                  <<>>,
                  STARTED \o <<NL, " ", NL>> \o OtherText,
                  STARTED \o <<" ">> \o OtherText }

NextFraming ==
    \/ ServerStart
    \/ \E k \in Conns : Accept(k)
    \/ \E k \in Conns : ReaderRecv(k)
    \/ \E k \in Conns : ReaderParseLine(k)
    \/ \E k \in Conns, text \in FramingTexts : ClientSendLine(k, text)

SpecFraming == InitCollect /\ [][NextFraming]_vars

----------------------------------------------------------------------------
(* The threads of the SocketServer: the accept loop and the connection     *)
(* handlers against failing connections and a caller of stop().            *)

NextServer ==
    \/ StartAcceptThread
    \/ AcceptLoopCheck
    \/ \E k \in Conns : AcceptConn(k)
    \/ AcceptTimeout
    \/ AcceptOSError
    \/ \E k \in Conns : ReaderRecv(k)
    \/ \E k \in Conns : ReaderParseLine(k)
    \/ \E k \in Conns : ReaderEOF(k)
    \/ \E k \in Conns : ReaderError(k)
    \/ \E k \in Conns : ReaderTimeout(k)
    \/ \E k \in Conns : ClientSendStarted(k)
    \/ \E k \in Conns : ClientTimeout(k)
    \/ Tick
    \/ StopClearFlag
    \/ StopCloseSocket
    \/ \E timedOut \in BOOLEAN : StopJoin(timedOut)

SpecServer == Init /\ [][NextServer]_vars

\* every thread of the server keeps running; accept() fails on a closed
\* socket
FairSpecServer ==
    /\ SpecServer
    /\ WF_vars(AcceptLoopCheck)
    /\ WF_vars(AcceptTimeout)
    /\ WF_vars(sock = "closed" /\ AcceptOSError)
    /\ \A k \in Conns : /\ WF_vars(ReaderRecv(k))
                         /\ WF_vars(ReaderParseLine(k))
                         /\ WF_vars(ReaderEOF(k))
                         /\ WF_vars(ReaderTimeout(k))

----------------------------------------------------------------------------
(* The two-test scenarios: the runner, the server and two test binaries.   *)

InitSequential ==
    /\ ServerInit
    /\ SMInit
    /\ EnvInit
    /\ ColInit
    /\ FrameInit
    /\ SMOpInit
    /\ BuildInit
    /\ ThreadInit
    /\ ScenInit({"sequential"})
    /\ LaunchInit({"posix"})
    /\ now = 0

InitParallel ==
    /\ ServerInit
    /\ SMInit
    /\ EnvInit
    /\ ColInit
    /\ FrameInit
    /\ SMOpInit
    /\ BuildInit
    /\ ThreadInit
    /\ ScenInit({"parallel"})
    /\ LaunchInit({"posix"})
    /\ now = 0

NextScenario ==
    \/ ServerStart
    \/ ScenRunBazel
    \/ \E k \in Tests : ScenTestStarts(k)
    \/ \E k \in Conns : Accept(k)
    \/ \E k \in Conns : ReaderRecv(k)
    \/ \E k \in Conns : ReaderEOF(k)
    \/ \E k \in Conns : ReaderParseLine(k)
    \/ ScenCallWait
    \/ WaitCheck(1)
    \/ ScenWaitReturned
    \/ ScenReply
    \/ \E k \in Conns : ClientRecv(k)
    \/ \E k \in Conns : ClientTimeout(k)
    \/ \E k \in Conns : ScenTestProceeds(k)
    \/ \E buildFailed \in BOOLEAN : ScenBazelExits(buildFailed)
    \/ ScenTick

SpecSequential == InitSequential /\ [][NextScenario]_vars

SpecParallel == InitParallel /\ [][NextScenario]_vars

----------------------------------------------------------------------------
(* stop() against the queue: the threads of the server, a caller of stop() *)
(* and a caller of the wait calls.                                          *)

StopWaitTimeouts == {0, TickSeconds}

NextStopQueue ==
    \/ StartAcceptThread
    \/ AcceptLoopCheck
    \/ \E k \in Conns : AcceptConn(k)
    \/ AcceptTimeout
    \/ AcceptOSError
    \/ \E k \in Conns : ReaderRecvAll(k)
    \/ \E k \in Conns : ReaderParseLine(k)
    \/ \E k \in Conns : ReaderTimeout(k)
    \/ \E k \in Conns : ClientSendStarted(k)
    \/ \E w \in Harness, t \in StopWaitTimeouts : WaitCall(w, t)
    \/ \E w \in Harness : WaitCheck(w)
    \/ \E w \in Harness, c \in BOOLEAN : WaitReturn(w, c)
    \/ Tick
    \/ StopClearFlag
    \/ StopCloseSocket
    \/ \E timedOut \in BOOLEAN : StopJoin(timedOut)

SpecStopQueue == Init /\ [][NextStopQueue]_vars

----------------------------------------------------------------------------
(* BuildbarnLauncher (bare/main.py): run() starts the configured processes *)
(* in order and _wait_for_processes watches them, asks them to stop and     *)
(* reaps them, while the processes exit on their own and SIGTERM/SIGINT     *)
(* reach the launcher.                                                      *)

\* everything outside the launcher, the clock excepted
notLaunchVars == <<serverVars, smVars, envVars, colVars, frameVars,
                   buildVars, threadVars, scenVars, smOpVars>>

\* the exit statuses of a process that ends on its own
BuildbarnExitCodes == {0, 1}
\* Popen.returncode of a process ended by SIGTERM, and by kill()
TERMINATED == -15
KILLED == -9

\* the i-th process of self.processes has exited
ExitedAt(i) == bbState[bbProcesses[i]] = "exited"

\* all(proc.poll() is not None for _, proc in self.processes)
AllExited == \A i \in 1..Len(bbProcesses) : ExitedAt(i)

\* how far all(...) gets: it stops at the first process still running
PolledBy == IF AllExited THEN Len(bbProcesses)
            ELSE CHOOSE i \in 1..Len(bbProcesses) :
                    ~ExitedAt(i) /\ \A j \in 1..(i-1) : ExitedAt(j)

\* Popen.returncode after proc.poll() of the first n of self.processes:
\* poll reaps a process that has exited
PolledUpTo(n) ==
    [p \in Buildbarn |->
        IF \E i \in 1..n : bbProcesses[i] = p /\ ExitedAt(i)
        THEN Some(bbExit[p]) ELSE bbReturncode[p]]

GracefulShutdownNever(plat) == FALSE
\* _graceful_shutdown: proc.send_signal(signal.SIGTERM), except on win32,
\* where it does nothing
GracefulShutdown(plat) == plat # "win32"

\* _handle_sigterm: what the handler assigns, by self.shutdown_requested
HandleSigterm(requested) ==
    IF ~requested THEN [shutdown |-> TRUE, kill |-> FALSE]
    ELSE [shutdown |-> TRUE, kill |-> TRUE]

\* run: `return 0 if success else 1`, success being
\* all(proc.returncode == 0 for _, proc in self.processes)
SuccessOf(codes) == IF \A i \in 1..Len(codes) : codes[i] = Some(0)
                    THEN 0 ELSE 1

\* run: _create_directories, the handlers of SIGTERM and SIGINT installed
LaunchRun ==
    /\ bbPc = "init"
    /\ bbPc' = "start"
    /\ bbIdx' = 1
    /\ UNCHANGED <<platform, bbProcesses, shutdown_requested, kill_requested,
                   bbState, bbExit, bbReturncode, bbDeadline, bbResult,
                   bbStartFailed, bbTermSent, bbKilled, bbSignals,
                   notLaunchVars, now>>

\* run: one pass of `for bb_process in BUILDBARN_PROCESSES`;
\* _start_process returns a Popen (ok) or None
LaunchStart(ok) ==
    /\ bbPc = "start"
    /\ bbIdx \in Buildbarn
    /\ IF ok
       THEN /\ bbState' = [bbState EXCEPT ![bbIdx] = "running"]
            /\ bbProcesses' = Append(bbProcesses, bbIdx)
            /\ bbIdx' = bbIdx + 1
            /\ bbPc' = IF bbIdx = NumBuildbarn THEN "started" ELSE "start"
            /\ UNCHANGED <<shutdown_requested, bbStartFailed>>
       ELSE /\ shutdown_requested' = TRUE
            /\ bbStartFailed' = TRUE
            /\ bbPc' = "started"
            /\ UNCHANGED <<bbState, bbProcesses, bbIdx>>
    /\ UNCHANGED <<platform, kill_requested, bbExit, bbReturncode,
                   bbDeadline, bbResult, bbTermSent, bbKilled, bbSignals,
                   notLaunchVars, now>>

\* run: `if not self.processes: return 1`, else _wait_for_processes
LaunchStarted ==
    /\ bbPc = "started"
    /\ IF bbProcesses = <<>>
       THEN /\ bbPc' = "returned"
            /\ bbResult' = 1
       ELSE /\ bbPc' = "monitor"
            /\ UNCHANGED bbResult
    /\ UNCHANGED <<platform, bbIdx, bbProcesses, shutdown_requested,
                   kill_requested, bbState, bbExit, bbReturncode, bbDeadline,
                   bbStartFailed, bbTermSent, bbKilled, bbSignals,
                   notLaunchVars, now>>

\* _wait_for_processes: one pass of `while not self.shutdown_requested`
\* that does not end in time.sleep: the loop is left, or the poll finds a
\* process that has exited
LaunchMonitor ==
    /\ bbPc = "monitor"
    /\ IF shutdown_requested
       THEN /\ bbPc' = "term"
            /\ bbIdx' = 1
            /\ UNCHANGED <<shutdown_requested, bbReturncode>>
       ELSE /\ \E i \in 1..Len(bbProcesses) : ExitedAt(i)
            /\ LET first == CHOOSE i \in 1..Len(bbProcesses) :
                               ExitedAt(i) /\ \A j \in 1..(i-1) : ~ExitedAt(j)
               IN bbReturncode' = PolledUpTo(first)
            /\ shutdown_requested' = TRUE
            /\ UNCHANGED <<bbPc, bbIdx>>
    /\ UNCHANGED <<platform, bbProcesses, kill_requested, bbState, bbExit,
                   bbDeadline, bbResult, bbStartFailed, bbTermSent, bbKilled,
                   bbSignals, notLaunchVars, now>>

\* _wait_for_processes: one pass of the loop that sends SIGTERM to the
\* processes whose poll() is None; after the last, the deadline is set
LaunchTerm ==
    /\ bbPc = "term"
    /\ bbIdx \in 1..Len(bbProcesses)
    /\ LET p == bbProcesses[bbIdx]
       IN IF bbState[p] = "running"
          THEN /\ bbTermSent' = [bbTermSent EXCEPT
                                   ![p] = @ \/ GracefulShutdown(platform)]
               /\ UNCHANGED bbReturncode
          ELSE /\ bbReturncode' = [bbReturncode EXCEPT ![p] = Some(bbExit[p])]
               /\ UNCHANGED bbTermSent
    /\ IF bbIdx = Len(bbProcesses)
       THEN /\ bbPc' = "grace"
            /\ bbDeadline' = now + LAUNCHER_SIGTERM_TIMEOUT
            /\ UNCHANGED bbIdx
       ELSE /\ bbIdx' = bbIdx + 1
            /\ UNCHANGED <<bbPc, bbDeadline>>
    /\ UNCHANGED <<platform, bbProcesses, shutdown_requested, kill_requested,
                   bbState, bbExit, bbResult, bbStartFailed, bbKilled,
                   bbSignals, notLaunchVars, now>>

\* _wait_for_processes: one pass of
\* `while time.time() < deadline and not self.kill_requested`
LaunchGrace ==
    /\ bbPc = "grace"
    /\ IF now < bbDeadline /\ ~kill_requested
       THEN /\ bbReturncode' = PolledUpTo(PolledBy)
            /\ bbPc' = IF AllExited THEN "killcheck" ELSE "grace"
       ELSE /\ bbPc' = "killcheck"
            /\ UNCHANGED bbReturncode
    /\ UNCHANGED <<platform, bbIdx, bbProcesses, shutdown_requested,
                   kill_requested, bbState, bbExit, bbDeadline, bbResult,
                   bbStartFailed, bbTermSent, bbKilled, bbSignals,
                   notLaunchVars, now>>

\* _wait_for_processes: `if not all(proc.poll() is not None ...)`
LaunchKillCheck ==
    /\ bbPc = "killcheck"
    /\ bbReturncode' = PolledUpTo(PolledBy)
    /\ bbPc' = IF AllExited THEN "reap" ELSE "kill"
    /\ bbIdx' = 1
    /\ UNCHANGED <<platform, bbProcesses, shutdown_requested, kill_requested,
                   bbState, bbExit, bbDeadline, bbResult, bbStartFailed,
                   bbTermSent, bbKilled, bbSignals, notLaunchVars, now>>

\* _wait_for_processes: one pass of the loop that calls proc.kill() on
\* the processes whose poll() is None
LaunchKill ==
    /\ bbPc = "kill"
    /\ bbIdx \in 1..Len(bbProcesses)
    /\ LET p == bbProcesses[bbIdx]
       IN IF bbState[p] = "running"
          THEN /\ bbKilled' = [bbKilled EXCEPT ![p] = TRUE]
               /\ bbState' = [bbState EXCEPT ![p] = "exited"]
               /\ bbExit' = [bbExit EXCEPT ![p] = KILLED]
               /\ UNCHANGED bbReturncode
          ELSE /\ bbReturncode' = [bbReturncode EXCEPT ![p] = Some(bbExit[p])]
               /\ UNCHANGED <<bbKilled, bbState, bbExit>>
    /\ IF bbIdx = Len(bbProcesses)
       THEN /\ bbPc' = "reap"
            /\ bbIdx' = 1
       ELSE /\ bbIdx' = bbIdx + 1
            /\ UNCHANGED bbPc
    /\ UNCHANGED <<platform, bbProcesses, shutdown_requested, kill_requested,
                   bbDeadline, bbResult, bbStartFailed, bbTermSent,
                   bbSignals, notLaunchVars, now>>

\* _wait_for_processes: one pass of the loop of proc.wait(), which blocks
\* until the process has exited; after the last, run returns
LaunchReap ==
    /\ bbPc = "reap"
    /\ bbIdx \in 1..Len(bbProcesses)
    /\ LET p == bbProcesses[bbIdx]
           codes == [bbReturncode EXCEPT ![p] = Some(bbExit[p])]
       IN /\ bbState[p] = "exited"
          /\ bbReturncode' = codes
          /\ IF bbIdx = Len(bbProcesses)
             THEN /\ bbPc' = "returned"
                  /\ bbResult' = SuccessOf([i \in 1..Len(bbProcesses) |->
                                              codes[bbProcesses[i]]])
                  /\ UNCHANGED bbIdx
             ELSE /\ bbIdx' = bbIdx + 1
                  /\ UNCHANGED <<bbPc, bbResult>>
    /\ UNCHANGED <<platform, bbProcesses, shutdown_requested, kill_requested,
                   bbState, bbExit, bbDeadline, bbStartFailed, bbTermSent,
                   bbKilled, bbSignals, notLaunchVars, now>>

\* a process ends: on its own with an exit status, or by the SIGTERM the
\* launcher sent it
BuildbarnExits(p, code) ==
    /\ bbState[p] = "running"
    /\ code \in BuildbarnExitCodes \/ (code = TERMINATED /\ bbTermSent[p])
    /\ bbState' = [bbState EXCEPT ![p] = "exited"]
    /\ bbExit' = [bbExit EXCEPT ![p] = code]
    /\ UNCHANGED <<platform, bbPc, bbIdx, bbProcesses, shutdown_requested,
                   kill_requested, bbReturncode, bbDeadline, bbResult,
                   bbStartFailed, bbTermSent, bbKilled, bbSignals,
                   notLaunchVars, now>>

\* SIGTERM or SIGINT reaches the launcher while run() is under way:
\* _handle_sigterm runs between two steps of the main thread
LaunchSignal ==
    /\ bbPc \notin {"init", "returned"}
    /\ bbSignals < MaxSignals
    /\ bbSignals' = bbSignals + 1
    /\ LET h == HandleSigterm(shutdown_requested)
       IN /\ shutdown_requested' = h.shutdown
          /\ kill_requested' = (kill_requested \/ h.kill)
    /\ UNCHANGED <<platform, bbPc, bbIdx, bbProcesses, bbState, bbExit,
                   bbReturncode, bbDeadline, bbResult, bbStartFailed,
                   bbTermSent, bbKilled, notLaunchVars, now>>

\* time passes while the launcher sleeps in the wait for the processes
LaunchTick ==
    /\ bbPc = "grace"
    /\ now < bbDeadline
    /\ now' = now + TickSeconds
    /\ UNCHANGED <<launchVars, notLaunchVars>>

InitLaunch ==
    /\ ServerInit
    /\ SMInit
    /\ EnvInit
    /\ ColInit
    /\ FrameInit
    /\ SMOpInit
    /\ BuildInit
    /\ ThreadInit
    /\ ScenInit({"none"})
    /\ LaunchInit({"posix", "win32"})
    /\ now = 0

NextLaunch ==
    \/ LaunchRun
    \/ \E ok \in BOOLEAN : LaunchStart(ok)
    \/ LaunchStarted
    \/ LaunchMonitor
    \/ LaunchTerm
    \/ LaunchGrace
    \/ LaunchKillCheck
    \/ LaunchKill
    \/ LaunchReap
    \/ \E p \in Buildbarn, code \in BuildbarnExitCodes \cup {TERMINATED} :
          BuildbarnExits(p, code)
    \/ LaunchSignal
    \/ LaunchTick

SpecLaunch == InitLaunch /\ [][NextLaunch]_vars

\* the main thread of the launcher keeps running and time passes
FairSpecLaunch ==
    /\ SpecLaunch
    /\ WF_vars(LaunchMonitor)
    /\ WF_vars(LaunchTerm)
    /\ WF_vars(LaunchGrace)
    /\ WF_vars(LaunchKillCheck)
    /\ WF_vars(LaunchKill)
    /\ WF_vars(LaunchReap)
    /\ WF_vars(LaunchTick)

----------------------------------------------------------------------------
(* Connections that end in the middle of a line: a sender cut short, a     *)
(* failing recv and stop() against handlers whose buffer holds bytes with   *)
(* no newline.                                                              *)

\* lines the senders try to send
PartialTexts == { STARTED \o <<NL>> \o OtherText }

NextPartial ==
    \/ StartAcceptThread
    \/ AcceptLoopCheck
    \/ \E k \in Conns : AcceptConn(k)
    \/ AcceptTimeout
    \/ AcceptOSError
    \/ \E k \in Conns : ReaderRecv(k)
    \/ \E k \in Conns : ReaderParseLine(k)
    \/ \E k \in Conns : ReaderEOF(k)
    \/ \E k \in Conns : ReaderError(k)
    \/ \E k \in Conns : ReaderTimeout(k)
    \/ \E k \in Conns, text \in PartialTexts : ClientSendLine(k, text)
    \/ \E k \in Conns, text \in PartialTexts :
          \E n \in 1..Len(text) : ClientSendCut(k, text, n)
    \/ \E w \in Harness : WaitCall(w, 0)
    \/ \E w \in Harness : WaitCheck(w)
    \/ \E w \in Harness : WaitReturn(w, FALSE)
    \/ StopClearFlag
    \/ StopCloseSocket
    \/ \E timedOut \in BOOLEAN : StopJoin(timedOut)

SpecPartial == Init /\ [][NextPartial]_vars

----------------------------------------------------------------------------
(* A build in flight: the harness calls run_and_collect_started while the   *)
(* test binaries of the build send one line each.                           *)

BuildLines == { STARTED, STARTED \o <<":", "a">>, STARTED \o OtherText }

NextBuild ==
    \/ ServerStart
    \/ \E k \in Conns : Accept(k)
    \/ \E k \in Conns : ReaderRecvAll(k)
    \/ \E k \in Conns : ReaderParseLine(k)
    \/ \E k \in Conns, line \in BuildLines : ClientSendLine(k, line)
    \/ RunAndCollectCall
    \/ \E w \in Harness, n \in CollectCounts, t \in CollectTimeouts :
          racPc = "collect" /\ CollectCall(w, "started", n, t, STARTED)
    \/ \E w \in Harness : CollectLoop(w)
    \/ \E w \in Harness : WaitCheck(w)
    \/ \E w \in Harness : CollectGot(w)
    \/ \E w \in Harness : TickBlocked(w)
    \/ RunAndCollectReturn

SpecBuild == InitCollect /\ [][NextBuild]_vars

----------------------------------------------------------------------------
(* The four helpers that take frames, and a wait call made after the       *)
(* helper has returned.                                                     *)

NextConsume ==
    \/ ServerStart
    \/ \E k \in Conns : Accept(k)
    \/ \E k \in Conns : ReaderRecvAll(k)
    \/ \E k \in Conns : ReaderParseLine(k)
    \/ \E k \in Conns, line \in BuildLines : ClientSendLine(k, line)
    \/ \E w \in Harness, kind \in {"started", "group"}, n \in CollectCounts,
          t \in CollectTimeouts :
          \E arg \in CollectArgs[kind] : CollectCall(w, kind, n, t, arg)
    \/ \E w \in Harness, t \in CollectTimeouts : ExpectNoCall(w, t)
    \/ \E w \in Harness, t \in CollectTimeouts : ExpectCall(w, STARTED, t)
    \/ \E w \in Harness : CollectLoop(w)
    \/ \E w \in Harness : WaitCheck(w)
    \/ \E w \in Harness : CollectGot(w)
    \/ \E w \in Harness : TickBlocked(w)
    \/ \E w \in Harness : colPc = "done" /\ WaitCall(w, 0)
    \/ \E w \in Harness : colPc = "done" /\ WaitReturn(w, TRUE)

SpecConsume == InitCollect /\ [][NextConsume]_vars

----------------------------------------------------------------------------
(* The budget of a call: the harness calls wait_for_started_messages or     *)
(* wait_for_message_with_conn itself, with a count and a timeout that may   *)
(* be zero or negative, while the test binaries send STARTED.               *)

BudgetCounts == {-1, 0, 1, 2}
BudgetTimeouts == {-1, 0, TickSeconds}

\* the timeouts that leave no budget
SpentTimeouts == {t \in BudgetTimeouts : t <= 0}

\* the harness thread is not inside a helper
OutsideHelper == colPc \in {"idle", "done"}

NextBudget ==
    \/ ServerStart
    \/ \E k \in Conns : Accept(k)
    \/ \E k \in Conns : ReaderRecvAll(k)
    \/ \E k \in Conns : ReaderParseLine(k)
    \/ \E k \in Conns : ClientSendStarted(k)
    \/ \E w \in Harness, n \in BudgetCounts, t \in BudgetTimeouts :
          CollectCall(w, "started", n, t, STARTED)
    \/ \E w \in Harness : CollectLoop(w)
    \/ \E w \in Harness : WaitCheck(w)
    \/ \E w \in Harness : CollectGot(w)
    \/ \E w \in Harness : TickBlocked(w)
    \/ \E w \in Harness, t \in SpentTimeouts : OutsideHelper /\ WaitCall(w, t)
    \/ \E w \in Harness : OutsideHelper /\ WaitReturn(w, TRUE)

SpecBudget == InitCollect /\ [][NextBudget]_vars

----------------------------------------------------------------------------
(* Replying to a collected group: the test binaries send STARTED and wait   *)
(* RECEIVE_TIMEOUT seconds for the answer; the harness collects a group and *)
(* answers it with reply_all.                                               *)

NextReplyAll ==
    \/ ServerStart
    \/ \E k \in Conns : Accept(k)
    \/ \E k \in Conns : ReaderRecvAll(k)
    \/ \E k \in Conns : ReaderParseLine(k)
    \/ \E k \in Conns : ClientSendStarted(k)
    \/ \E w \in Harness, n \in CollectCounts, t \in CollectTimeouts :
          CollectCall(w, "started", n, t, STARTED)
    \/ \E w \in Harness : CollectLoop(w)
    \/ \E w \in Harness : WaitCheck(w)
    \/ \E w \in Harness : CollectGot(w)
    \/ \E w \in Harness : TickBlocked(w)
    \/ ContinueAllCall
    \/ ReplyAllCall(OtherText)
    \/ ReplyAllStep
    \/ \E k \in Conns : ClientRecv(k)
    \/ \E k \in Conns : ClientTimeout(k)
    \/ \E k \in Conns : ClientProceed(k)

SpecReplyAll == InitCollect /\ [][NextReplyAll]_vars

----------------------------------------------------------------------------
(* The supervisor: a scenario calls start() and stop() on one              *)
(* ServiceManager while its processes run and exit.                        *)

InitSM ==
    /\ ServerInit
    /\ SMInit
    /\ EnvInit
    /\ ColInit
    /\ FrameInit
    /\ SMOpInit
    /\ BuildInit
    /\ ThreadInit
    /\ ScenInit({"none"})
    /\ LaunchInit({"posix"})
    /\ now = 0

NextSM ==
    \/ CallStart
    \/ CallStop
    \/ SMStep
    \/ \E p \in Procs : ProcExit(p)
    \/ Tick

SpecSM == InitSM /\ [][NextSM]_vars

\* a scenario that also restarts the services
NextRestart ==
    \/ CallStart
    \/ CallRestart
    \/ SMStep
    \/ \E p \in Procs : ProcExit(p)
    \/ Tick

SpecRestart == InitSM /\ [][NextRestart]_vars

\* any sequence of start(), stop() and restart()
NextLifecycle ==
    \/ CallStart
    \/ CallStartAgain
    \/ CallStop
    \/ CallRestart
    \/ SMStep
    \/ \E p \in Procs : ProcExit(p)
    \/ Tick

SpecLifecycle == InitSM /\ [][NextLifecycle]_vars

\* a scenario that asks is_running() between its phases
NextHealth ==
    \/ NextSM
    \/ CallIsRunning

SpecHealth == InitSM /\ [][NextHealth]_vars

\* the supervisor thread keeps running, time passes, a killed process dies
FairSpecSM ==
    /\ SpecSM
    /\ WF_vars(SMStep)
    /\ WF_vars(Tick)
    /\ \A p \in Procs : WF_vars(kills[p] > 0 /\ ProcExit(p))

----------------------------------------------------------------------------
(* The test session: test_environment_with_socket around a caller's body,   *)
(* while the supervisor works and the services run and exit.               *)

InitEnv ==
    /\ ServerInit
    /\ SMInit
    /\ EnvInit
    /\ ColInit
    /\ FrameInit
    /\ SMOpInit
    /\ BuildInit
    /\ ThreadInit
    /\ ScenInit({"none"})
    /\ LaunchInit({"posix"})
    /\ now = 0

NextEnv ==
    \/ EnvEnter
    \/ EnvConstruct
    \/ EnvStart
    \/ EnvStarted
    \/ \E outcome \in BodyOutcomes : EnvBodyEnds(outcome)
    \/ EnvFinallyStop
    \/ EnvStopped
    \/ EnvServerExit
    \/ EnvShutdownBazel
    \/ EnvCleanup
    \/ SMStep
    \/ \E p \in Procs : ProcExit(p)
    \/ Tick

SpecEnv == InitEnv /\ [][NextEnv]_vars

----------------------------------------------------------------------------
(* Claims on the coordination server *)

\* C1: no frame is delivered twice: the Message objects returned by all
\* wait calls, whichever thread made them, are pairwise distinct, and each
\* is a frame a reader appended.
NoDuplicateDelivery ==
    /\ \A i, j \in 1..Len(returned) :
          i # j => returned[i].uid # returned[j].uid
    /\ \A i \in 1..Len(returned) : returned[i].uid \in 1..Len(enqueued)

\* two callers have each just dequeued a frame and hold different ones
TwoWaitersServed ==
    /\ \A w \in Waiters : wpc[w] = "returned" /\ wresult[w].some
    /\ Len(returned) = 2

\* C2: global FIFO: the i-th frame returned by the wait calls is the i-th
\* frame the readers appended, whichever connection produced it.
GlobalFifo ==
    /\ Len(returned) <= Len(enqueued)
    /\ \A i \in 1..Len(returned) :
          /\ returned[i].uid = enqueued[i].uid
          /\ returned[i].content = enqueued[i].content
          /\ returned[i].connection = enqueued[i].from

\* frames of two connections, appended in the order 2 then 1, were both
\* queued together and have both been returned
FifoAcrossConnections ==
    /\ Len(returned) = 2
    /\ enqueued[1].from = 2
    /\ enqueued[2].from = 1
    /\ \E w \in Waiters : wpc[w] = "returned" /\ wresult[w] = Some(returned[2])
    /\ \E w \in Waiters : wpc[w] = "returned" /\ wresult[w] = Some(returned[1])

\* C3: a wait call returns None only when the queue is empty and its
\* timeout has elapsed, returns the oldest queued frame whenever the queue
\* is not empty (also with a timeout <= 0), and blocks only while the queue
\* is empty and time remains; it has no other outcome.
WaitTimeoutResult ==
    [][\A w \in Waiters :
         /\ (wpc[w] # "returned" /\ wpc'[w] = "returned") =>
               IF messages = <<>>
               THEN wresult'[w] = None /\ now >= wdeadline[w]
               ELSE wresult'[w] = Some(Head(messages)) /\ messages' = Tail(messages)
         /\ (wpc[w] # "waiting" /\ wpc'[w] = "waiting") =>
               messages = <<>> /\ now < wdeadline[w]
      ]_vars

\* a call made with timeout <= 0 has returned a frame that was queued
ZeroTimeoutGotFrame ==
    \E w \in Waiters :
       /\ wpc[w] = "returned"
       /\ wresult[w].some
       /\ wdeadline[w] <= 0

\* C4: a test binary proceeds past its wait for the reply (exit 0, DONE
\* sent) only when the harness wrote CONTINUE to its own connection and
\* that was the response it received; with any other response, or none
\* before its timeout, it exits 1, and once it has exited 1 it stays so.
RendezvousGate ==
    /\ [](\A k \in Conns :
            /\ cpc[k] \in {"continued", "exit0"} =>
                  cresponse[k] = Some(CONTINUE) /\ CONTINUE \in written[k]
            /\ (\E i \in 1..Len(c2s[k]) : c2s[k][i] = "D") => CONTINUE \in written[k]
            /\ (cresponse[k] # NoCall /\ cresponse[k] # Some(CONTINUE)) =>
                  cpc[k] = "exit1")
    /\ [][\A k \in Conns : cpc[k] = "exit1" => cpc'[k] = "exit1"]_vars

\* one binary was continued and exited 0, another got a different
\* response and exited 1
OneContinuedOneRejected ==
    \E k1, k2 \in Conns :
       /\ cpc[k1] = "exit0"
       /\ cpc[k2] = "exit1"
       /\ cresponse[k2] = Some(OtherText)

\* C5: a call of reply(msg, response) writes response and a newline to the
\* connection msg was received on and changes no other connection,
\* whatever the order of the replies.
ReplyRouting ==
    [][nreplies' = nreplies + 1 =>
         LET r == lastReply'
             origin == enqueued[r.msg.uid].from
         IN /\ \A k \in Conns \ {origin} : s2c'[k] = s2c[k]
            /\ IF ClientOpen(origin)
               THEN r.ok /\ s2c'[origin] = s2c[origin] \o r.response \o <<NL>>
               ELSE s2c'[origin] = s2c[origin]
      ]_vars

\* the frame dequeued second was answered first; both answers arrived at
\* different connections
RepliedOutOfOrder ==
    /\ Len(returned) = 2
    /\ nreplies = 2
    /\ lastReply.msg = returned[1]
    /\ returned[1].connection # returned[2].connection
    /\ written[returned[2].connection] # {}
    /\ written[returned[1].connection] # {}

----------------------------------------------------------------------------
(* Claims on the supervisor *)

StopPcs == {"stop_term", "stop_wait", "stop_kill", "stop_reap"}

\* C6: start() returns True exactly when no descriptor failed to resolve or
\* to spawn, and then one process per descriptor was spawned; when a
\* descriptor failed it returns False, the managed set is empty, no process
\* spawned by that call is still running, and only the descriptors before
\* the failing one were spawned.
StartAllOrNothing ==
    /\ smResult = "true" =>
          /\ callBad = 0
          /\ Cardinality(callSpawned) = NumServices
    /\ smResult = "false" =>
          /\ callBad \in Services
          /\ processes = <<>>
          /\ \A p \in Procs : osState[p] # Unborn => ~IsRunningProc(p)
          /\ \A p \in callSpawned : osState[p] = Gone
          /\ Cardinality(callSpawned) = callBad - 1

\* start() has returned False after spawning the first descriptor and
\* failing on the second
StartRolledBack ==
    /\ smPc = "idle"
    /\ smResult = "false"
    /\ callBad = 2
    /\ callSpawned # {}

\* C7: inside stop(), a kill is sent only once the grace period
\* SIGTERM_TIMEOUT has fully elapsed since the graceful signals, and only
\* to a process that is still running and was signalled; a graceful signal
\* is sent only to a running process; when every process exited before the
\* deadline no kill is sent.
GracePeriod ==
    [][\A p \in Procs :
         /\ kills'[p] > kills[p] =>
               /\ IsRunningProc(p)
               /\ sigterms[p] > 0
               /\ now >= termAt[p] + SIGTERM_TIMEOUT
               /\ now >= smDeadline
         /\ sigterms'[p] > sigterms[p] => IsRunningProc(p)
      ]_vars

\* in one stop(), one process exited on the graceful signal and was not
\* killed, another ran through the whole grace period and was killed
OneGracefulOneKilled ==
    \E p, q \in ManagedProcs :
       /\ kills[p] > 0
       /\ now >= termAt[p] + SIGTERM_TIMEOUT
       /\ sigterms[q] > 0
       /\ kills[q] = 0
       /\ HasExited(q)
       /\ smPc = "stop_reap"

\* C8: stop() terminates; at the moment it clears the managed set every
\* process of the set has exited and its exit status is stored in
\* returncode (it was waited on); when stop() returns the set is empty.
StopReapsAll ==
    /\ [][(processes # <<>> /\ processes' = <<>>) =>
            \A p \in ManagedProcs :
               HasExited(p) /\ returncode[p] = Some(osState[p].code)]_vars
    /\ [][(smPc \in StopPcs /\ smPc' = "idle") => processes' = <<>>]_vars
    /\ (smPc \in StopPcs) ~> (smPc = "idle")

\* stop() is about to return after waiting on a process it killed and on
\* one that had exited before stop() was called
ReapedKilledAndAlreadyExited ==
    /\ smPc = "stop_reap"
    /\ smIdx > Len(processes)
    /\ \E p, q \in ManagedProcs :
          /\ kills[p] > 0
          /\ returncode[p] = Some(SIGKILLED)
          /\ sigterms[q] = 0
          /\ returncode[q].some

\* C9: stop() called on an empty managed set returns at once and sends
\* no signal and changes no process; no process ever receives the graceful
\* signal twice.
StopIdempotent ==
    /\ [](\A p \in Procs : sigterms[p] <= 1)
    /\ [][(Len(calls') = Len(calls) + 1 /\ calls'[Len(calls')] = "stop"
             /\ processes = <<>>) =>
            /\ smPc' = "idle"
            /\ UNCHANGED <<processes, osState, returncode, sigterms, kills>>
         ]_vars

\* start(), stop(), stop(): the second stop() has returned, and a process
\* of the first one got its single graceful signal
StoppedTwice ==
    /\ calls = <<"start", "stop", "stop">>
    /\ smPc = "idle"
    /\ \E p \in Procs : sigterms[p] = 1

----------------------------------------------------------------------------
(* Claims on the test session *)

NoServiceRunning == \A p \in Procs : ~IsRunningProc(p)

----------------------------------------------------------------------------
(* Claims on the aggregation helpers *)

\* content is prefix, or prefix, a colon and id
IsFrameOf(content, prefix, id) ==
    \/ content = prefix /\ id = <<>>
    \/ content = prefix \o <<":">> \o id

MatchesPrefix(content, prefix) ==
    content = prefix \/ StartsWith(content, prefix \o <<":">>)

\* C11: wait_for_started_messages keeps messages and test_ids of equal
\* length; the members are the first frames it dequeued, in dequeue order;
\* the i-th test id is what follows prefix and a colon in the i-th frame
\* (empty for a bare prefix); it dequeues at most n frames; it returns a
\* group only with exactly n members, and None only after a frame that
\* does not match or when the budget is used up.
CollectsExactlyN ==
    colKind = "started" =>
       /\ Len(collected) = Len(testIds)
       /\ Len(colTaken) <= colCount
       /\ Len(collected) <= Len(colTaken)
       /\ \A i \in 1..Len(collected) :
             /\ collected[i] = colTaken[i]
             /\ IsFrameOf(collected[i].content, colPrefix, testIds[i])
       /\ colResult = "group" => Len(collected) = colCount
       /\ colResult = "None" =>
             \/ Len(colTaken) > Len(collected)
             \/ now - colStart >= colTimeout

\* a group of two was returned: a bare frame, and a frame whose id holds
\* a colon
CollectedBareAndId ==
    /\ colKind = "started"
    /\ colResult = "group"
    /\ colCount = 2
    /\ testIds = << <<>>, <<"a", ":", "b">> >>

\* C12: when wait_for_started_messages dequeues a frame that is neither
\* prefix nor prefix and a colon and more, that step ends the call with
\* None, whatever it had collected; once the call has ended it dequeues
\* nothing more and its result stays.
MismatchFailsAtOnce ==
    /\ [][(colKind = "started" /\ Len(colTaken') = Len(colTaken) + 1
            /\ ~MatchesPrefix(colTaken'[Len(colTaken')].content, colPrefix)) =>
             /\ colPc' = "done"
             /\ colResult' = "None"
             /\ now' = now]_vars
    /\ [][colPc = "done" =>
             /\ colTaken' = colTaken
             /\ colResult' = colResult
             /\ colPc' = "done"]_vars

\* the call has failed on its second frame with one member collected and
\* budget left
FailedAfterOneCollected ==
    /\ colKind = "started"
    /\ colResult = "None"
    /\ colCount = 2
    /\ Len(collected) = 1
    /\ Len(colTaken) = 2
    /\ now - colStart < colTimeout

\* C13: every wait that wait_for_started_messages / wait_for_test_group
\* enters ends no later than timeout after the call began, and the call
\* returns no later than that, however many frames arrive and when.
BudgetForWholeCall ==
    /\ [](\A w \in Harness :
            (colPc = "inwait" /\ colKind \in {"started", "group"}) =>
               wdeadline[w] <= colStart + colTimeout)
    /\ [][(colPc # "done" /\ colPc' = "done"
            /\ colKind' \in {"started", "group"}) =>
             now' <= colStart + colTimeout]_vars

\* a call for two frames with a budget of two ticks got one frame and
\* returned None exactly when the budget ended
TimedOutAtBudget ==
    /\ colKind \in {"started", "group"}
    /\ colCount = 2
    /\ colTimeout = 2 * TickSeconds
    /\ colResult = "None"
    /\ Len(collected) = 1
    /\ Len(colTaken) = 1
    /\ now = colStart + colTimeout

\* the wait inside expect_no_message settles its result
AbsenceDecides(w) ==
    colKind = "absence" /\ colPc = "inwait" /\ wpc[w] # "returned"
    /\ wpc'[w] = "returned"

\* expect_no_message returns: True exactly when its wait gave None
AbsenceReturns ==
    [][(colKind = "absence" /\ colPc = "inwait" /\ colPc' = "done") =>
         \A w \in Harness : colResult' = "True" <=> ~wresult[w].some]_vars

\* C14 as stated: expect_no_message returns True exactly when no frame
\* was enqueued between its call and the end of its wait.
ExpectNoIffNoArrival ==
    /\ AbsenceReturns
    /\ [][\A w \in Harness : AbsenceDecides(w) =>
             (~wresult'[w].some <=> Len(enqueued) = colBase)]_vars

\* C14 amended: expect_no_message returns True exactly when the queue was
\* empty at its call and no frame was enqueued before its wait ended, and
\* then the timeout has elapsed; it returns False when a frame was queued
\* before the call or arrived within the window.
ExpectNoIffQueueStaysEmpty ==
    /\ AbsenceReturns
    /\ [][\A w \in Harness : AbsenceDecides(w) =>
             /\ ~wresult'[w].some <=>
                   (Len(enqueued) = colBase /\ Len(returned) = colBase)
             /\ ~wresult'[w].some => now >= colStart + colTimeout]_vars

\* a frame that arrived half-way through the window made
\* expect_no_message return False
AbsenceFailedMidWindow ==
    /\ colKind = "absence"
    /\ colResult = "False"
    /\ colTimeout = 2 * TickSeconds
    /\ now = colStart + TickSeconds
    /\ Len(enqueued) = colBase + 1
    /\ Len(returned) = Len(enqueued)

\* every member reply_all has called reply for, in the order of the calls,
\* is the member at that place of the group
TriedInOrder ==
    /\ Len(raTried) <= Len(collected)
    /\ \A i \in 1..Len(raTried) : raTried[i].msg = collected[i]

\* C15 as stated: when reply_all returns, reply was called once for every
\* member of the group, in collection order; the result is True when every
\* reply succeeded and False when one failed.
ReplyAllReachesEveryMember ==
    /\ TriedInOrder
    /\ raResult # "none" =>
          /\ Len(raTried) = Len(collected)
          /\ raResult = "True" <=>
                \A i \in 1..Len(raTried) : raTried[i].result = "True"

\* C15 amended: reply_all calls reply for the members in collection order,
\* once each, and stops at the first reply that fails: it returns True when
\* every member was sent the response, and False at the first failure,
\* in which case the members after the failed one are sent nothing and the
\* responses already delivered stay delivered.
ReplyAllStopsAtFirstFailure ==
    /\ TriedInOrder
    /\ raResult \in {"none", "True", "False"}
    /\ \A i \in 1..Len(raTried) :
          /\ i < Len(raTried) => raTried[i].result = "True"
          /\ (raTried[i].result = "True" /\ raTried[i].open) =>
                raResponse \in written[raTried[i].msg.connection]
    /\ raResult = "True" =>
          /\ Len(raTried) = Len(collected)
          /\ \A i \in 1..Len(raTried) : raTried[i].result = "True"
    /\ raResult = "False" =>
          /\ raTried # <<>>
          /\ raTried[Len(raTried)].result = "False"
    /\ raResult = "none" =>
          (raTried # <<>> => raTried[Len(raTried)].result = "True")

\* reply_all returned False after the first of two members was answered
\* and the second, whose client had given up, was not
FirstAnsweredSecondFailed ==
    /\ raResult = "False"
    /\ Len(collected) = 2
    /\ Len(raTried) = 2
    /\ raTried[1].open
    /\ raResponse \in written[collected[1].connection]

----------------------------------------------------------------------------
(* Claims on framing and on reply *)

\* the positions of the newlines of a byte stream
NewlinesOf(s) == {i \in 1..Len(s) : s[i] = NL}

\* the line that the newline at position i of the stream ends
LineEndingAt(s, i) ==
    LET before == {j \in NewlinesOf(s) : j < i}
        from == IF before = {} THEN 1
                ELSE 1 + CHOOSE j \in before : \A h \in before : h <= j
    IN SubSeq(s, from, i - 1)

\* a line without the whitespace around it
Trimmed(l) ==
    LET ink == {i \in 1..Len(l) : l[i] \notin Whitespace}
    IN IF ink = {} THEN <<>>
       ELSE SubSeq(l, CHOOSE i \in ink : \A h \in ink : i <= h,
                      CHOOSE i \in ink : \A h \in ink : h <= i)

RECURSIVE FramesUpTo(_, _)
\* the trimmed, non-empty lines ending at or before position i, in order
FramesUpTo(s, i) ==
    IF i = 0 THEN <<>>
    ELSE IF s[i] = NL /\ Trimmed(LineEndingAt(s, i)) # <<>>
         THEN Append(FramesUpTo(s, i - 1), Trimmed(LineEndingAt(s, i)))
         ELSE FramesUpTo(s, i - 1)

\* the frames of a byte stream
FramesOf(s) == FramesUpTo(s, Len(s))

\* the bytes after the last newline of a stream
AfterLastNewline(s) ==
    IF NewlinesOf(s) = {} THEN s
    ELSE SubSeq(s, 1 + CHOOSE j \in NewlinesOf(s) :
                           \A h \in NewlinesOf(s) : h <= j, Len(s))

\* the bytes of connection k that recv has handed to the handler
Consumed(k) == SubSeq(sent[k], 1, Len(sent[k]) - Len(c2s[k]))

RECURSIVE ContentsFrom(_, _)
\* the contents of the frames of q that came from connection k, in order
ContentsFrom(q, k) ==
    IF q = <<>> THEN <<>>
    ELSE IF Head(q).from = k
         THEN <<Head(q).content>> \o ContentsFrom(Tail(q), k)
         ELSE ContentsFrom(Tail(q), k)

\* C16: for every connection and every split of its byte stream into
\* reads, the frames enqueued from it, followed by those of the complete
\* lines still in its buffer, are the trimmed non-empty newline-terminated
\* lines of the bytes read so far; the buffer ends with the bytes after
\* the last newline, and holds nothing else whenever the handler waits in
\* recv.
FramesAreTrimmedLines ==
    \A k \in Conns :
       /\ ContentsFrom(enqueued, k) \o FramesOf(rbuf[k]) = FramesOf(Consumed(k))
       /\ AfterLastNewline(rbuf[k]) = AfterLastNewline(Consumed(k))
       /\ reader[k] = "recv" =>
             /\ rbuf[k] = AfterLastNewline(Consumed(k))
             /\ ContentsFrom(enqueued, k) = FramesOf(Consumed(k))

\* a stream of three lines, the second blank: the first frame is enqueued,
\* the third line is in the buffer without its newline, which is still
\* to be read
PartialLineBuffered ==
    \E k \in Conns :
       /\ sent[k] = STARTED \o <<NL, " ", NL>> \o OtherText \o <<NL>>
       /\ reader[k] = "recv"
       /\ rbuf[k] = OtherText
       /\ c2s[k] = <<NL>>
       /\ ContentsFrom(enqueued, k) = <<STARTED>>

\* a step that is one call of reply
ReplyStep == nreplies' = nreplies + 1

\* a step that is a call of reply repeating the call before it, which
\* succeeded, while the client still listens
RepeatedReplyStep ==
    /\ nreplies >= 1
    /\ ReplyStep
    /\ lastReply.ok
    /\ lastReply'.msg = lastReply.msg
    /\ lastReply'.response = lastReply.response
    /\ ClientOpen(ReplyTarget(lastReply.msg))

\* C17 as stated: reply returns True or False and never raises; it
\* returns False whenever the client of the message has closed its
\* connection and whenever sendall fails, and True only when the whole
\* line was written.
ReplyFalseOnceClosed ==
    [][ReplyStep =>
         LET r == lastReply'
         IN /\ r.result \in {"True", "False"}
            /\ ~ClientOpen(ReplyTarget(r.msg)) => r.result = "False"
            /\ r.outcome \in SendallErrors => r.result = "False"
            /\ r.result = "True" => r.outcome = "sent"
      ]_vars

\* C17 amended: reply returns True or False and never raises; it returns
\* False exactly when sendall fails, which happens only after the client
\* has closed its connection and then leaves every stream as it was, and
\* True exactly when sendall took the whole line, which an open client then
\* finds at the end of its stream; a line sent after the client closed may
\* still be taken, and reply then returns True.
ReplyNeverRaises ==
    [][ReplyStep =>
         LET r == lastReply'
             k == ReplyTarget(r.msg)
         IN /\ r.result \in {"True", "False"}
            /\ r.result = "False" <=> r.outcome \in SendallErrors
            /\ r.result = "False" => ~ClientOpen(k) /\ s2c' = s2c
            /\ r.result = "True" <=> r.outcome = "sent"
            /\ (r.result = "True" /\ ClientOpen(k)) =>
                  s2c'[k] = s2c[k] \o r.response \o <<NL>>
      ]_vars

\* a reply to a client that had given up failed with a reset connection
\* and returned False
ReplyFailedOnReset ==
    /\ nreplies >= 1
    /\ lastReply.outcome = "ConnectionResetError"
    /\ lastReply.result = "False"
    /\ cpc[ReplyTarget(lastReply.msg)] = "exit1"

\* C18 as stated: a second call reply(msg, text) after a first one leaves
\* the originating connection as the first call left it.
ReplyIdempotent ==
    [][RepeatedReplyStep => s2c' = s2c]_vars

\* C18 amended: reply is not idempotent: every call on a connection whose
\* client still listens succeeds and writes the response line again, so a
\* second call reply(msg, text) sends the client a second line.
ReplyWritesEachTime ==
    [][RepeatedReplyStep =>
         LET k == ReplyTarget(lastReply.msg)
         IN /\ lastReply'.ok
            /\ s2c'[k] = s2c[k] \o lastReply.response \o <<NL>>
            /\ Len(s2c'[k]) > Len(s2c[k])
      ]_vars

\* one message was answered CONTINUE twice before its client read: the
\* client's stream holds the line twice
SameLineTwice ==
    \E k \in Conns :
       /\ nreplies = 2
       /\ lastReply.ok
       /\ ReplyTarget(lastReply.msg) = k
       /\ s2c[k] = CONTINUE \o <<NL>> \o CONTINUE \o <<NL>>

----------------------------------------------------------------------------
(* Claims on restart() and is_running() *)

\* the call the scenario made last
LastCall == IF calls = <<>> THEN "none" ELSE calls[Len(calls)]

\* the calls of start() so far
StartCalls == {i \in 1..Len(calls) : calls[i] = "start"}

\* C19: restart() does what stop() followed by start() does, without the
\* directory preparation: once it has spawned a process, every process of
\* before is reaped and dropped; directories are prepared by start() only;
\* it returns True with one new process per descriptor, in list order, or
\* False with an empty set and nothing left running.
RestartIsStopThenStart ==
    /\ mkdirs = Cardinality(StartCalls)
    /\ LastCall = "restart" =>
          /\ callSpawned # {} =>
                \A p \in Procs \ callSpawned : osState[p] \in {Unborn, Gone}
          /\ smPc \in StopPcs /\ smRet = "restart" => callSpawned = {}
          /\ smPc = "idle" =>
                /\ smResult \in {"true", "false"}
                /\ smResult = "true" =>
                      /\ Len(processes) = NumServices
                      /\ \A i \in 1..Len(processes) :
                            /\ processes[i].service = i
                            /\ ProcOf(i) \in callSpawned
                /\ smResult = "false" =>
                      /\ processes = <<>>
                      /\ \A p \in Procs : ~IsRunningProc(p)

\* after start(), restart() returned True: the processes of start() were
\* signalled, reaped and dropped, new ones run, directories were prepared
\* once
RestartReplacedAll ==
    /\ calls = <<"start", "restart">>
    /\ smPc = "idle"
    /\ smResult = "true"
    /\ mkdirs = 1
    /\ \E p \in Procs \ callSpawned : osState[p] = Gone /\ sigterms[p] = 1
    /\ \A i \in 1..Len(processes) : IsRunningProc(ProcOf(i))

\* a step that is one call of is_running()
IsRunningStep == calls' = Append(calls, "is_running")

\* C20: is_running() returns True exactly when no process of the managed
\* set has exited at the time of the call, hence True on an empty set; it
\* changes neither the set nor a process; and a process that exits
\* changes nothing the supervisor holds: its exit is seen at the next poll.
IsRunningPollsAll ==
    [][/\ IsRunningStep =>
            /\ isRunResult' = "true" <=>
                  \A i \in 1..Len(processes) : IsRunningProc(ProcOf(i))
            /\ processes = <<>> => isRunResult' = "true"
            /\ isRunResult' \in {"true", "false"}
            /\ UNCHANGED <<processes, osState, smPc, smResult>>
       /\ osState' # osState /\ processes' = processes =>
            UNCHANGED <<returncode, isRunResult, smPc, smResult>>
      ]_vars

\* after start() one service exited while the other runs: is_running()
\* returned False and the exit status is stored
CrashSeenAtPoll ==
    /\ calls = <<"start", "is_running">>
    /\ isRunResult = "false"
    /\ Len(processes) = NumServices
    /\ \E i, j \in 1..Len(processes) :
          /\ returncode[ProcOf(i)] = Some(0)
          /\ IsRunningProc(ProcOf(j))

----------------------------------------------------------------------------
(* Claims on the lifecycle and the order of the supervisor *)

\* the scenario has called start() or restart()
EverStarted == \E i \in 1..Len(calls) : calls[i] \in {"start", "restart"}

\* the state of the managed set: inside start() or the loop of restart()
\* (the rollback of a failed start included), inside stop(), or between
\* calls with a set that is not empty, was never filled, or was emptied
Phase ==
    IF smPc \in {"start_loop", "start_sleep"} THEN "Starting"
    ELSE IF smPc \in StopPcs
         THEN IF smRet = "start_fail" THEN "Starting" ELSE "Stopping"
    ELSE IF processes # <<>> THEN "Running"
    ELSE IF EverStarted THEN "Stopped" ELSE "Idle"

LifecycleEdges ==
    { <<"Idle", "Starting">>, <<"Starting", "Running">>,
      <<"Running", "Stopping">>, <<"Stopping", "Stopped">>,
      <<"Starting", "Stopped">> }

\* C21 as stated: the managed set changes state only along
\* Idle -> Starting -> Running -> Stopping -> Stopped and
\* Starting -> Stopped.
OnlyLifecycleEdges ==
    [][Phase' # Phase => <<Phase, Phase'>> \in LifecycleEdges]_vars

\* the set is used again: start() after stop() or on a running set, and
\* the loop of restart() right after its stop()
ReuseEdges ==
    { <<"Stopped", "Starting">>, <<"Running", "Starting">>,
      <<"Stopping", "Starting">> }

\* C21 amended: the managed set changes state along
\* Idle -> Starting -> Running -> Stopping -> Stopped and
\* Starting -> Stopped, and it is used again: Stopped -> Starting when
\* start() or restart() is called on an emptied set, Stopping -> Starting
\* inside restart(), Running -> Starting when start() is called on a
\* running set; stop() on an empty set changes nothing.
LifecycleWithReuse ==
    [][Phase' # Phase =>
         <<Phase, Phase'>> \in LifecycleEdges \cup ReuseEdges]_vars

\* start(), stop(), then start() again has brought the emptied set back
\* to Running
StartedAgainAfterStop ==
    /\ calls = <<"start", "stop", "start">>
    /\ Phase = "Running"
    /\ smResult = "true"
    /\ \E p \in Procs : osState[p] = Gone

\* the place of process p in the managed list
IndexOf(p) == CHOOSE i \in 1..Len(processes) : processes[i].proc = p

\* C22: a process is spawned for the next descriptor of the list and
\* appended at the tail of the managed list, which otherwise only gets
\* cleared; stop() sends SIGTERM, and later SIGKILL, to a process only when
\* every process before it in the list has been signalled or has exited
\* and none after it has been signalled; it waits on the processes in list
\* order.
SupervisorOrder ==
    [][/\ processes' # processes =>
            \/ processes' = <<>>
            \/ /\ Len(processes') = Len(processes) + 1
               /\ SubSeq(processes', 1, Len(processes)) = processes
               /\ processes'[Len(processes')].service = Cardinality(callSpawned) + 1
               /\ processes'[Len(processes')].proc \notin
                     {processes[i].proc : i \in 1..Len(processes)}
       /\ \A p \in Procs : sigterms'[p] # sigterms[p] =>
            /\ \A j \in 1..(IndexOf(p) - 1) :
                  sigterms[processes[j].proc] > 0 \/ HasExited(processes[j].proc)
            /\ \A j \in (IndexOf(p) + 1)..Len(processes) :
                  sigterms[processes[j].proc] = 0
       /\ \A p \in Procs : kills'[p] > kills[p] =>
            /\ \A j \in 1..(IndexOf(p) - 1) :
                  kills[processes[j].proc] > 0 \/ HasExited(processes[j].proc)
            /\ \A j \in (IndexOf(p) + 1)..Len(processes) :
                  kills[processes[j].proc] = 0
       /\ (smPc = "stop_reap" /\ smIdx' = smIdx + 1) =>
            \A j \in 1..smIdx : returncode'[processes[j].proc].some
      ]_vars

\* stop() has sent SIGTERM to the first process of the list and not yet
\* to the second; both run
FirstSignalledFirst ==
    /\ smPc = "stop_term"
    /\ Len(processes) = NumServices
    /\ processes[1].service = 1
    /\ sigterms[processes[1].proc] = 1
    /\ sigterms[processes[2].proc] = 0
    /\ IsRunningProc(processes[1].proc)
    /\ IsRunningProc(processes[2].proc)

----------------------------------------------------------------------------
(* Claims on groups, the build process and the life of the readers *)

\* C23: a group returned by wait_for_test_group(server, id, n, t) holds n
\* members, each a frame STARTED:<id> with the requested id, recorded with
\* that id.
GroupHoldsRequestedTest ==
    (colKind = "group" /\ colPc = "done" /\ colResult = "group") =>
       /\ Len(collected) = colCount
       /\ \A i \in 1..Len(collected) :
             /\ collected[i].content = STARTED \o <<":">> \o colPrefix
             /\ testIds[i] = colPrefix

\* wait_for_test_group for test a has returned a group of two: a node of
\* test a and a node of the test a:b
ForeignNodeInGroup ==
    /\ colKind = "group"
    /\ colPc = "done"
    /\ colResult = "group"
    /\ colPrefix = <<"a">>
    /\ Len(collected) = 2
    /\ \E i, j \in 1..2 :
          /\ testIds[i] = <<"a">>
          /\ testIds[j] = <<"a", ":", "b">>

\* C24: run_and_collect_started calls bazel_proc.terminate(), once,
\* exactly when wait_for_started_messages returned None (on a timeout or
\* on a frame that does not match) and then returns None; when a group
\* was collected it returns the group and does not call terminate().
TerminatesBuildOnFailure ==
    /\ racPc # "done" => bazelTerms = 0 /\ racResult = "none"
    /\ racPc = "done" =>
          /\ racResult = colResult
          /\ racResult \in {"None", "group"}
          /\ racResult = "None" <=> bazelTerms = 1
          /\ racResult = "group" <=> bazelTerms = 0
          /\ racResult = "group" => Len(collected) = colCount

\* after one STARTED was collected a frame STARTEDX arrived: the build
\* process was terminated and None returned
BuildTerminatedOnBadFrame ==
    /\ racPc = "done"
    /\ racResult = "None"
    /\ bazelTerms = 1
    /\ Len(collected) = 1
    /\ Len(colTaken) = 2
    /\ colTaken[2].content = STARTED \o OtherText

\* the handler of connection k ends on its own connection (recv raised
\* OSError or returned b""), the server still running
EndsOnConnection(k) ==
    /\ running
    /\ reader[k] = "recv"
    /\ reader'[k] = "done"

\* C25: when the recv of one connection fails or reports the close, only
\* the handler of that connection ends: the handlers of the other
\* connections, the queue with the frames enqueued so far, the listening
\* socket, the running flag and the accept loop are left as they are.
\* The accept loop ends only inside accept(), on an OSError of the
\* listening socket, or at its loop test once _running is cleared; no
\* handler's end takes part in it.
ReaderFailureIsLocal ==
    [][/\ \A k \in Conns :
            EndsOnConnection(k) =>
                /\ \A j \in Conns \ {k} : reader'[j] = reader[j]
                /\ messages' = messages
                /\ UNCHANGED <<sock, running, acceptPc>>
       /\ (acceptPc # "done" /\ acceptPc' = "done") =>
                /\ reader' = reader
                /\ acceptPc = "accept" \/ ~running
       /\ (\E k \in Conns : reader[k] = "none" /\ reader'[k] # "none") =>
                /\ acceptPc = "accept"
                /\ sock = "listening"
      ]_vars

\* the handler of connection 1 has ended while its client is still
\* connected; the frame it enqueued is in the queue, followed by a frame
\* of connection 2, whose handler goes on, and the accept loop is alive
ReaderFailedOthersServed ==
    /\ running
    /\ acceptPc \in {"check", "accept"}
    /\ reader[1] = "done"
    /\ cpc[1] = "waiting"
    /\ reader[2] = "recv"
    /\ Len(messages) = 2
    /\ messages[1].connection = 1
    /\ messages[2].connection = 2

\* the handler of connection k is alive
Outstanding(k) == reader[k] \in {"recv", "parse"}

\* C26: once SocketServer.stop() has returned the flag is cleared and the
\* listening socket is closed, and no connection is accepted any more (no
\* handler is started); a handler that is alive when stop() has returned,
\* or whose client has closed the connection, eventually ends.
StopEndsAccepting ==
    /\ [](stopPc = "returned" => ~running /\ sock = "closed")
    /\ [][stopPc = "returned" =>
             \A k \in Conns : reader[k] = "none" => reader'[k] = "none"]_vars
    /\ \A k \in Conns :
          /\ (stopPc = "returned" /\ Outstanding(k)) ~> (reader[k] = "done")
          /\ (Outstanding(k) /\ cpc[k] = "exit1") ~> (reader[k] = "done")

\* stop() has returned with the accept thread ended: the client of
\* connection 2 had connected and was never accepted, the handler of
\* connection 1 is still blocked in recv
StoppedWithPendingClient ==
    /\ stopPc = "returned"
    /\ acceptPc = "done"
    /\ cpc[2] = "waiting"
    /\ reader[2] = "none"
    /\ cpc[1] = "waiting"
    /\ reader[1] = "recv"
    /\ Len(messages) = 1

----------------------------------------------------------------------------
(* Claims on the teardown of the session and on the two-test scenarios *)

StartedDequeued(i) == Len(returned) >= i /\ returned[i].content = STARTED

SentDone(k) == sent[k] = STARTED \o <<NL>> \o DONE \o <<NL>>

----------------------------------------------------------------------------
(* Claims on the wake-up of blocked callers *)

\* C30: a caller blocked in condition.wait while the queue holds a frame
\* has a wake-up pending, so it runs its loop again and takes a frame if
\* one is left; and a call returns None only at a moment when the queue
\* is empty.
NoLostWakeup ==
    /\ [](\A w \in Waiters :
            (wpc[w] = "waiting" /\ messages # <<>>) => wnotified[w])
    /\ [][\A w \in Waiters :
             (wpc[w] # "returned" /\ wpc'[w] = "returned"
                 /\ wresult'[w] = None) => messages = <<>>]_vars

\* two frames were enqueued for two blocked callers: the first caller has
\* returned one, the second is still blocked with its wake-up pending and
\* the other frame in the queue
SecondWaiterWoken ==
    /\ wpc[1] = "returned"
    /\ wresult[1].some
    /\ wpc[2] = "waiting"
    /\ wnotified[2]
    /\ now < wdeadline[2]
    /\ Len(messages) = 1
    /\ Len(enqueued) = 2

----------------------------------------------------------------------------
(* Claims on what the queue keeps and what a call consumes *)

\* the frame the readers appended as the i-th, as the Message it became
EnqueuedMessage(i) ==
    Message(enqueued[i].content, enqueued[i].from, enqueued[i].uid)

\* C31: the frames ever appended are, in their order, the frames the wait
\* calls have returned followed by the frames in the queue; a step changes
\* the queue only by appending one frame at the tail or by removing the
\* head, which then is the frame returned.
QueueConservation ==
    /\ [](/\ Len(enqueued) = Len(returned) + Len(messages)
          /\ \A i \in 1..Len(enqueued) :
                (returned \o messages)[i] = EnqueuedMessage(i))
    /\ [][messages' # messages =>
             \/ /\ Len(enqueued') = Len(enqueued) + 1
                /\ LET e == enqueued'[Len(enqueued')]
                   IN messages' =
                         Append(messages, Message(e.content, e.from, e.uid))
                /\ returned' = returned
             \/ /\ messages' = Tail(messages)
                /\ returned' = Append(returned, Head(messages))
                /\ enqueued' = enqueued]_vars

\* of two frames appended, of connection 2 and then of connection 1, the
\* first was returned to a caller and the second is in the queue
OneReturnedOneQueued ==
    /\ Len(enqueued) = 2
    /\ Len(returned) = 1
    /\ Len(messages) = 1
    /\ returned[1].connection = 2
    /\ messages[1].connection = 1

\* what follows "STARTED:" in a frame of that shape
IdOfStarted(content) == SubSeq(content, Len(STARTED) + 2, Len(content))

\* C32: every frame wait_for_test_group takes from the server either has
\* the shape STARTED:<x> and is then appended to the group with x, the
\* id of the frame, as its test id, whatever id was requested; or it has
\* another shape (a bare STARTED included) and the call returns None at
\* once with the group as it was.
GroupCountsEveryStarted ==
    [][(colKind = "group" /\ Len(colTaken') = Len(colTaken) + 1) =>
         LET m == colTaken'[Len(colTaken')]
         IN IF StartsWith(m.content, STARTED \o <<":">>)
            THEN /\ collected' = Append(collected, m)
                 /\ testIds' = Append(testIds, IdOfStarted(m.content))
                 /\ colPc' = "loop"
            ELSE /\ colPc' = "done"
                 /\ colResult' = "None"
                 /\ collected' = collected
                 /\ testIds' = testIds
      ]_vars

\* wait_for_test_group for test a counted a frame of the test a:b and then
\* returned None on a bare STARTED
GroupFailedOnBareStarted ==
    /\ colKind = "group"
    /\ colPc = "done"
    /\ colResult = "None"
    /\ colPrefix = <<"a">>
    /\ testIds = << <<"a", ":", "b">> >>
    /\ Len(colTaken) = 2
    /\ colTaken[2].content = STARTED

\* the helper call has returned None or False
HelperFailed == colPc = "done" /\ colResult \in {"None", "False"}

\* the Message is among the frames the helper call dequeued
TakenByHelper(m) == \E i \in 1..Len(colTaken) : colTaken[i].uid = m.uid

\* C33: when wait_for_started_messages, wait_for_test_group,
\* expect_message or expect_no_message has failed, the frames it dequeued
\* (for the first two: the group collected so far, then the offending
\* frame if there was one) are not in the queue, no wait call made
\* afterwards returns one of them, and no step of the helper wrote to a
\* connection.
ConsumedNotPutBack ==
    /\ [](HelperFailed =>
            /\ \A j \in 1..Len(messages) : ~TakenByHelper(messages[j])
            /\ colKind \in {"started", "group"} =>
                  \/ colTaken = collected
                  \/ /\ Len(colTaken) = Len(collected) + 1
                     /\ SubSeq(colTaken, 1, Len(collected)) = collected
            /\ colKind \in {"expect", "absence"} => Len(colTaken) <= 1)
    /\ [][(HelperFailed /\ Len(returned') = Len(returned) + 1) =>
             ~TakenByHelper(returned'[Len(returned')])]_vars
    /\ [][(colPc' # colPc \/ colTaken' # colTaken) =>
             UNCHANGED <<s2c, written, nreplies>>]_vars

\* wait_for_started_messages collected one frame and failed on the next;
\* a wait call made afterwards has found the queue empty
NothingLeftAfterFailure ==
    /\ HelperFailed
    /\ colKind = "started"
    /\ Len(collected) = 1
    /\ Len(colTaken) = 2
    /\ wpc[1] = "returned"
    /\ wresult[1] = None

\* C34: no step of SocketServer.stop() changes the queue or the state of
\* a waiter (none is woken, none returns); a handler whose buffer holds a
\* complete line after a recv goes on to enqueue it whether or not the
\* flag is cleared; a wait call that returns after stop() has returned
\* takes the oldest queued frame when there is one; and a blocked caller
\* returns only with a frame or once its own timeout has expired.
StopLeavesQueue ==
    /\ [][stopPc' # stopPc =>
             UNCHANGED <<messages, wpc, wnotified, wresult, wdeadline>>]_vars
    /\ [][\A k \in Conns :
             (reader[k] = "recv" /\ rbuf'[k] # rbuf[k] /\ HasNewline(rbuf'[k]))
                => reader'[k] = "parse"]_vars
    /\ [][\A w \in Harness :
             (stopPc = "returned" /\ wpc[w] # "returned"
                 /\ wpc'[w] = "returned" /\ messages # <<>>)
                => wresult'[w] = Some(Head(messages))]_vars
    /\ [][\A w \in Harness :
             (wpc[w] = "waiting" /\ wpc'[w] = "returned")
                => wresult'[w].some \/ now >= wdeadline[w]]_vars

\* stop() has returned while a caller is blocked in a wait with time
\* left: it was not woken, and a handler that received a line before it
\* saw the flag is about to enqueue it
BlockedAcrossStop ==
    /\ stopPc = "returned"
    /\ ~running
    /\ wpc[1] = "waiting"
    /\ ~wnotified[1]
    /\ now < wdeadline[1]
    /\ messages = <<>>
    /\ reader[1] = "parse"

----------------------------------------------------------------------------
(* Claims on the managed set, the buffers and the budget *)

\* C35: the managed set never holds two processes of one service
\* descriptor.
OneProcessPerService ==
    \A i, j \in 1..Len(processes) :
       i # j => processes[i].service # processes[j].service

\* start() was called on a running set and has returned True: the set
\* holds two running processes of service 1
TwoLiveProcessesOfOneService ==
    /\ smPc = "idle"
    /\ smResult = "true"
    /\ \E i, j \in 1..Len(processes) :
          /\ i # j
          /\ processes[i].service = 1
          /\ processes[j].service = 1
          /\ IsRunningProc(ProcOf(i))
          /\ IsRunningProc(ProcOf(j))

\* the content is one of the frames of the newline-terminated lines that
\* connection k sent
CompleteFrameOf(content, k) ==
    \E j \in 1..Len(FramesOf(sent[k])) : FramesOf(sent[k])[j] = content

\* C36: bytes without a terminating newline in a handler's buffer are never
\* enqueued: the frames appended from a connection, queued or returned to a
\* caller are frames of newline-terminated lines only, a handler that has
\* ended (connection closed, recv failed, server marked not running) has
\* appended exactly the frames of the complete lines it read, and nothing
\* is appended from its connection afterwards.
PartialFrameDropped ==
    /\ [](\A k \in Conns :
            /\ reader[k] = "done" =>
                  /\ ~HasNewline(rbuf[k])
                  /\ ContentsFrom(enqueued, k) = FramesOf(Consumed(k))
            /\ \A i \in 1..Len(enqueued) :
                  enqueued[i].from = k =>
                     CompleteFrameOf(enqueued[i].content, k)
            /\ \A i \in 1..Len(messages) :
                  messages[i].connection = k =>
                     CompleteFrameOf(messages[i].content, k)
            /\ \A i \in 1..Len(returned) :
                  returned[i].connection = k =>
                     CompleteFrameOf(returned[i].content, k))
    /\ [][\A k \in Conns :
             reader[k] = "done" =>
                /\ reader'[k] = "done"
                /\ rbuf'[k] = rbuf[k]
                /\ ContentsFrom(enqueued', k) = ContentsFrom(enqueued, k)]_vars

\* a sender was cut after its first line and the first byte of its second;
\* the handler read both, saw the connection close and ended with the
\* second line's byte in its buffer; a caller got the first line, and the
\* next call found the queue empty
PartialLeftAtClose ==
    \E k \in Conns, w \in Harness :
       /\ sent[k] = STARTED \o <<NL>> \o OtherText
       /\ cpc[k] = "exit1"
       /\ c2s[k] = <<>>
       /\ reader[k] = "done"
       /\ running
       /\ rbuf[k] = OtherText
       /\ Len(returned) = 1
       /\ returned[1].content = STARTED
       /\ messages = <<>>
       /\ wpc[w] = "returned"
       /\ wresult[w] = None

\* C37: wait_for_started_messages tests its budget before it looks at the
\* queue: called for n >= 1 frames with a timeout <= 0 it returns None and
\* has dequeued nothing, whatever is queued, and so does any pass of its
\* loop that finds the budget used up; called for n <= 0 frames it returns
\* the empty group at once, without waiting or dequeuing.  A call of
\* wait_for_message_with_conn with such a timeout that finds a frame queued
\* returns the oldest one.
BudgetBeforeQueue ==
    /\ []((colPc = "done" /\ colKind = "started") =>
            /\ (colCount >= 1 /\ colTimeout <= 0) =>
                  /\ colResult = "None"
                  /\ colTaken = <<>>
            /\ colCount <= 0 =>
                  /\ colResult = "group"
                  /\ collected = <<>>
                  /\ colTaken = <<>>)
    /\ []((colPc = "inwait" /\ colKind = "started") =>
            /\ colCount >= 1
            /\ colTimeout > 0)
    /\ [][(/\ colPc = "loop"
            /\ colPc' # "loop"
            /\ Len(collected) < colCount
            /\ Remaining(colTimeout, colStart, now) <= 0) =>
              /\ colPc' = "done"
              /\ colResult' = "None"
              /\ messages' = messages
              /\ returned' = returned
              /\ wpc' = wpc]_vars
    /\ [][\A w \in Harness :
             (/\ OutsideHelper
              /\ wpc[w] = "called"
              /\ wpc'[w] # "called"
              /\ messages # <<>>) =>
                /\ wpc'[w] = "returned"
                /\ wresult'[w] = Some(Head(messages))
                /\ messages' = Tail(messages)]_vars

\* two frames were queued when wait_for_started_messages was called for two
\* frames with timeout 0: it returned None and took nothing; then
\* wait_for_message_with_conn, called with timeout 0, returned the older
\* frame
NoneFromHelperFrameFromWait ==
    \E w \in Harness :
       /\ colPc = "done"
       /\ colKind = "started"
       /\ colCount = 2
       /\ colTimeout = 0
       /\ colBase = 2
       /\ colResult = "None"
       /\ colTaken = <<>>
       /\ wpc[w] = "returned"
       /\ wdeadline[w] = now
       /\ wresult[w].some
       /\ wresult[w].val = EnqueuedMessage(1)
       /\ Len(messages) = 1

----------------------------------------------------------------------------
(* Claims on the BuildbarnLauncher *)

\* the processes the launcher started
Started == {bbProcesses[i] : i \in 1..Len(bbProcesses)}

\* the launcher is past the loop that sends the graceful signal
PastTerm == bbPc \in {"grace", "killcheck", "kill", "reap"}
               \/ (bbPc = "returned" /\ bbProcesses # <<>>)

\* the launcher watches, stops and reaps: it leaves the monitoring loop
\* only with shutdown requested, a process it finds exited there makes it
\* request shutdown, and from then on it goes on to return, having reaped
\* every process it started
MonitorStopReap ==
    /\ []((bbPc = "term" \/ PastTerm) => shutdown_requested)
    /\ [](bbPc = "returned" =>
            \A p \in Started :
               /\ bbState[p] = "exited"
               /\ bbReturncode[p] = Some(bbExit[p]))
    /\ ((bbPc = "monitor" /\ \E p \in Started : bbState[p] = "exited")
           ~> shutdown_requested)
    /\ ((bbPc = "monitor" /\ shutdown_requested) ~> bbPc = "returned")

\* C38 as stated: the launcher watches, stops and reaps as above, and once
\* it is past the signalling loop every process still running (or killed
\* later) has been sent the graceful signal.
ExitRequestsGracefulShutdown ==
    /\ MonitorStopReap
    /\ [](PastTerm =>
            \A p \in Started :
               (bbState[p] = "running" \/ bbKilled[p]) => bbTermSent[p])

\* C38, amended: the same on every platform but win32; on win32 the
\* launcher sends no signal to any process.
GracefulShutdownOffWin32 ==
    /\ MonitorStopReap
    /\ [](platform # "win32" =>
            (PastTerm =>
               \A p \in Started :
                  (bbState[p] = "running" \/ bbKilled[p]) => bbTermSent[p]))
    /\ [](platform = "win32" => \A p \in Buildbarn : ~bbTermSent[p])

\* no signal reached the launcher and every process was started; the
\* first exited with status 0 on its own, the second was sent SIGTERM and
\* ended by it, and run() has returned
ExitOfOneStoppedTheOther ==
    /\ platform = "posix"
    /\ bbPc = "returned"
    /\ bbSignals = 0
    /\ ~bbStartFailed
    /\ bbReturncode[1] = Some(0)
    /\ ~bbTermSent[1]
    /\ bbTermSent[2]
    /\ ~bbKilled[2]
    /\ bbReturncode[2] = Some(TERMINATED)

\* a step in which the launcher kills process p
KillStep(p) == bbKilled'[p] /\ ~bbKilled[p]

\* C39 as stated: the first signal requests shutdown and not the kill, the
\* second requests the kill; a process is killed only when it is still
\* running, and only after a second signal or once SIGTERM_TIMEOUT has
\* passed since the graceful signals were sent.
KillOnlyOnSecondSignalOrTimeout ==
    /\ [][(bbSignals = 0 /\ bbSignals' = 1) =>
             (shutdown_requested' /\ ~kill_requested')]_vars
    /\ [][(bbSignals = 1 /\ bbSignals' = 2) => kill_requested']_vars
    /\ [][\A p \in Buildbarn :
             KillStep(p) =>
                /\ bbState[p] = "running"
                /\ bbSignals >= 2 \/ now >= bbDeadline]_vars

\* every process was started and one of them exited; while the launcher
\* waited for the other one, a single signal arrived, and the launcher
\* killed that process before SIGTERM_TIMEOUT had passed
KilledOnFirstSignal ==
    /\ bbSignals = 1
    /\ ~bbStartFailed
    /\ now < bbDeadline
    /\ \E p \in Started : bbKilled[p]

\* C40 as stated: run() returns 0 or 1; 0 only if every configured process
\* was started and each exited with status 0, and 1 if a process failed to
\* start or one exited with another status.
ZeroOnlyOnFullSuccess ==
    bbPc = "returned" =>
       /\ bbResult \in {0, 1}
       /\ bbResult = 0 =>
             /\ ~bbStartFailed
             /\ Started = Buildbarn
             /\ \A p \in Buildbarn : bbExit[p] = 0
       /\ (bbStartFailed \/ \E p \in Started : bbExit[p] # 0) =>
             bbResult = 1

\* the first process was started, the second one was not; the first
\* exited with status 0 and run() returned 0
ZeroAfterFailedStart ==
    /\ bbPc = "returned"
    /\ bbStartFailed
    /\ Started = {1}
    /\ bbExit[1] = 0
    /\ bbResult = 0

====
